---- MODULE Spec2Model ----
(***************************************************************************)
(* A model of the perception/control engine of runecolor: window           *)
(* calibration (model/runelite_window.py), template search                 *)
(* (utilities/img_search.py), color isolation (utilities/color_util.py),   *)
(* contour extraction (utilities/extract_contours.py), capture             *)
(* (utilities/geometry.py) and OCR (utilities/ocr.py).                     *)
(*                                                                         *)
(* Each component has its own variables and its own specification; a       *)
(* specification leaves the variables of the other components untouched.   *)
(***************************************************************************)
EXTENDS Integers, Sequences, FiniteSets, TLC

VARIABLES
    \* ---- RuneLiteWindow (model/runelite_window.py) ----
    win,          \* region attributes: name -> <<>> (None / []) or a sequence of Rectangles
    mode,         \* RuneLiteWindow.mode
    calls,        \* number of initialize() calls made so far
    initResult,   \* outcome of the latest initialize(): "none", "True", "False", "raised"
    stage,        \* return values a, b, c, d of the four stages of the latest call
    anchors,      \* which anchors the searches of the latest call found
    stamp,        \* per region group: the initialize() call that last assigned it (0 = never)
    gvFrom        \* the stamps of minimap, chat and control panel read by the game-view stage

winVars == <<win, mode, calls, initResult, stage, anchors, stamp, gvFrom>>

VARIABLES
    \* ---- search_img_in_rect (utilities/img_search.py) ----
    sPc,          \* "idle", "loop" (inside the for loop), "done"
    sArgs,        \* the arguments and the capture's best match of the call in progress
    confidence,   \* the local variable confidence of search_img_in_rect
    attempt,      \* loop iterations started so far
    tried,        \* the thresholds of the attempts made, in order
    sResult       \* kind "unset", "raised" or "returned", and the returned value

searchVars == <<sPc, sArgs, confidence, attempt, tried, sResult>>

VARIABLES
    \* ---- isolate_colors / isolate_contours (utilities/color_util.py) ----
    cImage,       \* the image argument: a sequence of 3-channel pixels
    cColors,      \* the colors argument of isolate_colors; cColors[1] is also the color
                  \* argument of isolate_contours
    cMask,        \* the mask returned by isolate_colors (<<>> before the call)
    cThresh       \* the mask isolate_contours thresholds its image to (<<>> before)

colorVars == <<cImage, cColors, cMask, cThresh>>

VARIABLES
    \* ---- extract_contours (utilities/extract_contours.py) ----
    eMask,        \* the binary image: the set of filled white rectangles it shows
    ePc,          \* "input" before the call, "done" after
    eObjs         \* the returned list of RuneLiteObjects

contourVars == <<eMask, ePc, eObjs>>

VARIABLES
    \* ---- Rectangle.screenshot (utilities/geometry.py) ----
    subtract_list, \* Rectangle.subtract_list of the captured rectangle
    grabbed,       \* the BGRA pixels sct.grab returns: [row, column] -> pixel
    shPc,          \* "input" before a capture, "done" after
    img_bgr        \* the returned buffer: [row, column] -> BGR pixel

shotVars == <<subtract_list, grabbed, shPc, img_bgr>>

VARIABLES
    \* ---- scrape_text / find_textbox (utilities/ocr.py) ----
    correlation,  \* per font character: the cv2.matchTemplate map, position -> score
    oArgs,        \* the arguments of the call: rect, text, exclude / include-only chars
    oPc,          \* "idle" (no input), "input" before the call, "done" after
    char_list,    \* the sorted local char_list at the end of the call
    matches,      \* find_textbox: per appended Rectangle, the word and its index i
    oResult       \* how the call ended and what it returned

ocrVars == <<correlation, oArgs, oPc, char_list, matches, oResult>>

VARIABLES
    \* ---- RuneLiteObject and find_colors (utilities/geometry.py, model/runelite_bot.py) ----
    objMask,      \* the thresholded image the objects are extracted from
    objVia,       \* which function produced objs: "find_colors" or "extract_contours"
    objs,         \* the list of RuneLiteObjects produced
    objOp,        \* the method called on an object: "center" or "random_point"
    objSelf,      \* the object the method is called on
    objPoint,     \* random_point: the local `point`
    objAttempt,   \* random_point: the local `attempt`
    objPc,        \* "idle", "input", "ready" (objects produced), "loop", "done"
    objResult     \* how the method ended

objVars ==
    <<objMask, objVia, objs, objOp, objSelf, objPoint, objAttempt, objPc, objResult>>

VARIABLES
    \* ---- Walker.get_pixel_distance (utilities/walker.py) ----
    pxWorld,      \* what the game shows: the character's tile and the compass angle
    pxDest,       \* the dest argument, a tile
    pxSelf,       \* the Walker's attributes x, y and camera_angle
    pxPc,         \* "idle", "input", "done"
    pxResult      \* None, or the returned Point

pixelVars == <<pxWorld, pxDest, pxSelf, pxPc, pxResult>>

VARIABLES
    \* ---- Walker.walk (utilities/walker.py) ----
    wkWorld,      \* the game: the character's tile and the tile it is walking to
    wkCfg,        \* MAX_HORIZON, DEST_SQUARE_SIDE_LENGTH, reset_zoom_each_embark
    wkArgs,       \* the arguments walk_path and dest
    wkLoc,        \* the Walker's loc, as update_position last stored it
    wkLocal,      \* the locals dest, new_pos and embarking
    wkPc,         \* "idle", "input", "while", "target", "check", "change", "done"
    wkResult,     \* "none", "True", "False" or "raised"
    wkHist        \* history: the arrival checks made, pointer use, the blocked report

walkVars == <<wkWorld, wkCfg, wkArgs, wkLoc, wkLocal, wkPc, wkResult, wkHist>>

VARIABLES
    \* ---- Walker.add_waypoints (utilities/walker.py) ----
    wpArgs,       \* the walk_path argument and the Walker's MAX_WAYPOINT_DIST
    wpPc,         \* "idle", "input", "done"
    wpOut,        \* the returned path
    wpFrom        \* history: per returned waypoint, where it comes from

waypointVars == <<wpArgs, wpPc, wpOut, wpFrom>>

VARIABLES
    \* ---- Walker.travel_to_dest_along_path (utilities/walker.py) ----
    tvApi,        \* what each pathfinding host answers: a path, or [] on any failure
    tvArgs,       \* the hard-coded walk_path argument
    tvPc,         \* "idle", "dax", "osrspf", "manual", "done"
    tvTried,      \* history: the tiers attempted, with how each attempt ended
    tvResult      \* "none", or the value returned: "True", "False" or "None"

travelVars == <<tvApi, tvArgs, tvPc, tvTried, tvResult>>

VARIABLES
    \* ---- Mouse.click / Mouse.right_click (utilities/mouse.py) ----
    clArgs,       \* the call: the method and button, hold_key, force_delay, check_red_click
    clPc,         \* "idle", "keyDown", "mouseDown", "sleep", "mouseUp", "keyUp", "red", "done"
    clEvents,     \* the pyautogui and time.sleep calls made, in order
    clPressed,    \* the buttons and keys that are down
    clResult      \* "none", or the value returned: "None", "True" or "False"

clickVars == <<clArgs, clPc, clEvents, clPressed, clResult>>

VARIABLES
    \* ---- RuneLiteBot.move_camera (model/runelite_bot.py) ----
    cmArgs,       \* the arguments horizontal and vertical, and the delay sampled
    cmNow,        \* the time, in units of 10 ns
    cmMain,       \* the calling thread: where it is, and until when it sleeps
    cmThreads,    \* thread_h and thread_v: where each is, and until when it sleeps
    cmEvents,     \* the pag.keyDown and pag.keyUp calls made, in order
    cmPressed,    \* the keys that are down
    cmResult      \* "none", "returned" or "raised"

cameraVars == <<cmArgs, cmNow, cmMain, cmThreads, cmEvents, cmPressed, cmResult>>

VARIABLES
    \* ---- Mouse.move_to, wind style (utilities/mouse.py) ----
    mvArgs,       \* where the pointer is at the call, and the destination
    mvPc,         \* "idle", "call", "while" or "done"
    mvX0,         \* x0, in hundredths of a pixel
    mvV,          \* v_x, in hundredths of a pixel
    mvM0,         \* M_0, in hundredths of a pixel
    mvPointer,    \* where pyautogui has the pointer, in pixels
    mvMoved       \* whether pag.moveTo has been called

moveVars == <<mvArgs, mvPc, mvX0, mvV, mvM0, mvPointer, mvMoved>>

VARIABLES
    \* ---- Rectangle.random_point (utilities/geometry.py, utilities/random_util.py) ----
    rpRect,       \* the rectangle
    rpPc,         \* "idle", "call", "x", "y" or "done"
    rpInner,      \* the inner bounding box handed to __random_from
    rpPoint       \* the coordinates drawn so far; the point returned when done

randVars == <<rpRect, rpPc, rpInner, rpPoint>>

VARIABLES
    \* ---- RuneLiteBot.find_and_mouse_to_marked_object (model/runelite_bot.py) ----
    mkArgs,       \* the argument num_retries
    mkPc,         \* "idle", "call", "for", "nudge", "rotate", "walk", "zoom" or "done"
    mkI,          \* the loop variable i
    mkSearches,   \* how many times __search_all_marked_obj_orders has been called
    mkApplied,    \* the remediations applied, in the order each was applied first
    mkLog,        \* for each remediation applied so far, the value of i at its first use
    mkResult      \* "none", the value returned, "True" or "False", or the error raised

markVars == <<mkArgs, mkPc, mkI, mkSearches, mkApplied, mkLog, mkResult>>

VARIABLES
    \* ---- Walker.get_target_posn and Walker.has_arrived called on their own ----
    qArgs,        \* the call, its arguments, the Walker's settings, the position read
    qPc,          \* "idle", "call" or "done"
    qResult       \* the value returned

queryVars == <<qArgs, qPc, qResult>>

VARIABLES
    \* ---- Bot.play, Bot.stop and BotThread (model/bot.py) ----
    btPlatform,   \* platform.system()
    btCallers,    \* the threads that call play and stop: the GUI's, the hotkey listener's
    btStatus,     \* Bot.status
    btThread,     \* Bot.thread: 0 for None, else the number of a worker
    btWorker,     \* each BotThread: "new", "run", "held" or "dead"; its pending exception
    btStarted,    \* how many workers have been started
    btCall,       \* for each calling thread, the call it is in and where
    btDown        \* whether the operating system has the button down

botVars == <<btPlatform, btCallers, btStatus, btThread, btWorker, btStarted, btCall, btDown>>

VARIABLES
    \* ---- Walker.update_position (utilities/walker.py) ----
    upWorld,      \* the character's world point: x, y and plane
    upPc,         \* "idle", "call" or "done"
    upCalls,      \* how many times update_position has been called
    upPolls,      \* how many times the current call has called get_world_point
    upPosition    \* Walker.position; the empty tuple before the first call

posnVars == <<upWorld, upPc, upCalls, upPolls, upPosition>>

vars ==
    <<winVars, searchVars, colorVars, contourVars, shotVars, ocrVars, objVars,
      pixelVars, walkVars, waypointVars, travelVars, clickVars, cameraVars, moveVars,
      randVars, markVars, queryVars, botVars, posnVars>>

\* The variables of all components but one.
exceptWin ==
    <<searchVars, colorVars, contourVars, shotVars, ocrVars, objVars, pixelVars,
      walkVars, waypointVars, travelVars, clickVars, cameraVars, moveVars, randVars,
      markVars, queryVars, botVars, posnVars>>

exceptSearch ==
    <<winVars, colorVars, contourVars, shotVars, ocrVars, objVars, pixelVars, walkVars,
      waypointVars, travelVars, clickVars, cameraVars, moveVars, randVars, markVars,
      queryVars, botVars, posnVars>>

exceptColor ==
    <<winVars, searchVars, contourVars, shotVars, ocrVars, objVars, pixelVars,
      walkVars, waypointVars, travelVars, clickVars, cameraVars, moveVars, randVars,
      markVars, queryVars, botVars, posnVars>>

exceptContour ==
    <<winVars, searchVars, colorVars, shotVars, ocrVars, objVars, pixelVars, walkVars,
      waypointVars, travelVars, clickVars, cameraVars, moveVars, randVars, markVars,
      queryVars, botVars, posnVars>>

exceptShot ==
    <<winVars, searchVars, colorVars, contourVars, ocrVars, objVars, pixelVars,
      walkVars, waypointVars, travelVars, clickVars, cameraVars, moveVars, randVars,
      markVars, queryVars, botVars, posnVars>>

exceptOcr ==
    <<winVars, searchVars, colorVars, contourVars, shotVars, objVars, pixelVars,
      walkVars, waypointVars, travelVars, clickVars, cameraVars, moveVars, randVars,
      markVars, queryVars, botVars, posnVars>>

exceptObj ==
    <<winVars, searchVars, colorVars, contourVars, shotVars, ocrVars, pixelVars,
      walkVars, waypointVars, travelVars, clickVars, cameraVars, moveVars, randVars,
      markVars, queryVars, botVars, posnVars>>

exceptPixel ==
    <<winVars, searchVars, colorVars, contourVars, shotVars, ocrVars, objVars,
      walkVars, waypointVars, travelVars, clickVars, cameraVars, moveVars, randVars,
      markVars, queryVars, botVars, posnVars>>

exceptWalk ==
    <<winVars, searchVars, colorVars, contourVars, shotVars, ocrVars, objVars,
      pixelVars, waypointVars, travelVars, clickVars, cameraVars, moveVars, randVars,
      markVars, queryVars, botVars, posnVars>>

exceptWaypoint ==
    <<winVars, searchVars, colorVars, contourVars, shotVars, ocrVars, objVars,
      pixelVars, walkVars, travelVars, clickVars, cameraVars, moveVars, randVars,
      markVars, queryVars, botVars, posnVars>>

exceptTravel ==
    <<winVars, searchVars, colorVars, contourVars, shotVars, ocrVars, objVars,
      pixelVars, walkVars, waypointVars, clickVars, cameraVars, moveVars, randVars,
      markVars, queryVars, botVars, posnVars>>

exceptClick ==
    <<winVars, searchVars, colorVars, contourVars, shotVars, ocrVars, objVars,
      pixelVars, walkVars, waypointVars, travelVars, cameraVars, moveVars, randVars,
      markVars, queryVars, botVars, posnVars>>

exceptCamera ==
    <<winVars, searchVars, colorVars, contourVars, shotVars, ocrVars, objVars,
      pixelVars, walkVars, waypointVars, travelVars, clickVars, moveVars, randVars,
      markVars, queryVars, botVars, posnVars>>

exceptMove ==
    <<winVars, searchVars, colorVars, contourVars, shotVars, ocrVars, objVars,
      pixelVars, walkVars, waypointVars, travelVars, clickVars, cameraVars, randVars,
      markVars, queryVars, botVars, posnVars>>

exceptRand ==
    <<winVars, searchVars, colorVars, contourVars, shotVars, ocrVars, objVars,
      pixelVars, walkVars, waypointVars, travelVars, clickVars, cameraVars, moveVars,
      markVars, queryVars, botVars, posnVars>>

exceptMark ==
    <<winVars, searchVars, colorVars, contourVars, shotVars, ocrVars, objVars,
      pixelVars, walkVars, waypointVars, travelVars, clickVars, cameraVars, moveVars,
      randVars, queryVars, botVars, posnVars>>

exceptQuery ==
    <<winVars, searchVars, colorVars, contourVars, shotVars, ocrVars, objVars,
      pixelVars, walkVars, waypointVars, travelVars, clickVars, cameraVars, moveVars,
      randVars, markVars, botVars, posnVars>>

exceptBot ==
    <<winVars, searchVars, colorVars, contourVars, shotVars, ocrVars, objVars,
      pixelVars, walkVars, waypointVars, travelVars, clickVars, cameraVars, moveVars,
      randVars, markVars, queryVars, posnVars>>

exceptPosn ==
    <<winVars, searchVars, colorVars, contourVars, shotVars, ocrVars, objVars,
      pixelVars, walkVars, waypointVars, travelVars, clickVars, cameraVars, moveVars,
      randVars, markVars, queryVars, botVars>>

-----------------------------------------------------------------------------
(* Geometry: utilities/geometry.py                                         *)

Point(x, y) == [x |-> x, y |-> y]

Rectangle(left, top, width, height) ==
    [left |-> left, top |-> top, width |-> width, height |-> height]

bottom_right(r) == Point(r.left + r.width, r.top + r.height)

top_right(r) == Point(r.left + r.width, r.top)

\* Rectangle.from_points(start_point, end_point)
from_points(p, q) == Rectangle(p.x, p.y, q.x - p.x, q.y - p.y)

\* A Python attribute holding None or [] is the empty sequence; an attribute holding
\* one Rectangle is a one-element sequence; a list attribute is the list.
None == << >>

Some(r) == << r >>

\* How a call ended: kind is "unset" (not ended), "raised" or "returned".
Outcome(kind, value) == [kind |-> kind, value |-> value]

\* Truthiness of an attribute as `all([...])` sees it: None is false, an object true.
Truthy(attr) == attr # None


-----------------------------------------------------------------------------
(* Window calibration: model/runelite_window.py                            *)

\* Attributes assigned by _locate_minimap.
MinimapAttrs ==
    {"_minimap_area", "compass_orb", "hp_orb", "prayer_orb", "run_orb", "spec_orb",
     "hp_orb_text", "prayer_orb_text", "run_orb_text", "spec_orb_text", "minimap"}

\* Attributes assigned by _locate_chat.
ChatAttrs == {"chat_tabs", "chat_tabs_all", "chat_history", "chat_input", "chat", "_chat_area"}

\* Attributes assigned by _locate_control_panel and the helpers it calls.
ControlPanelAttrs ==
    {"control_panel", "_control_panel_area", "hp_bar", "prayer_bar", "cp_top", "cp_bot",
     "cp_tabs", "inventory", "cp_inner", "inventory_slots", "prayers", "spellbook_normal"}

\* Attributes assigned by _locate_game_view and the helpers it calls.
GameViewAttrs ==
    {"_game_view_area", "_game_view_subtract_list", "game_view", "mouseover", "grid_info",
     "tile", "chunk_id", "region_id", "current_action", "xp_total"}

WinAttrs == MinimapAttrs \cup ChatAttrs \cup ControlPanelAttrs \cup GameViewAttrs

\* The class attributes of RuneLiteWindow before any calibration: None or [].
WinClassDefaults == [a \in WinAttrs |-> None]

\* The attribute holding one Rectangle.
Get(w, a) == w[a][1]

\* _locate_minimap, Fixed - Classic branch: the attributes derived from the template hit mt.
LocateMinimapFixed(mt) ==
    [a \in MinimapAttrs |->
        CASE a = "_minimap_area" -> Some(Rectangle(mt.left - 1, mt.top, mt.width + 48, mt.height + 4))
          [] a = "compass_orb" -> Some(Rectangle(mt.left + 27, mt.top + 2, 34, 35))
          [] a = "hp_orb" -> Some(Rectangle(mt.left + 25, mt.top + 43, 28, 28))
          [] a = "prayer_orb" -> Some(Rectangle(mt.left + 25, mt.top + 77, 28, 28))
          [] a = "run_orb" -> Some(Rectangle(mt.left + 35, mt.top + 109, 28, 28))
          [] a = "spec_orb" -> Some(Rectangle(mt.left + 57, mt.top + 134, 28, 28))
          [] a = "hp_orb_text" -> Some(Rectangle(mt.left + 3, mt.top + 54, 22, 14))
          [] a = "prayer_orb_text" -> Some(Rectangle(mt.left + 3, mt.top + 88, 22, 14))
          [] a = "run_orb_text" -> Some(Rectangle(mt.left + 13, mt.top + 120, 22, 14))
          [] a = "spec_orb_text" -> Some(Rectangle(mt.left + 35, mt.top + 145, 22, 14))
          [] a = "minimap" -> Some(Rectangle(mt.left + 52, mt.top + 4, 147, 159))]

\* _locate_minimap, Resizable - Classic branch.
LocateMinimapResizable(mt) ==
    [a \in MinimapAttrs |->
        CASE a = "_minimap_area" -> Some(Rectangle(mt.left, mt.top, mt.width + 1, mt.height + 15))
          [] a = "compass_orb" -> Some(Rectangle(mt.left + 33, mt.top + 2, 37, 37))
          [] a = "hp_orb" -> Some(Rectangle(mt.left + 26, mt.top + 48, 28, 28))
          [] a = "prayer_orb" -> Some(Rectangle(mt.left + 26, mt.top + 82, 28, 28))
          [] a = "run_orb" -> Some(Rectangle(mt.left + 36, mt.top + 114, 28, 28))
          [] a = "spec_orb" -> Some(Rectangle(mt.left + 58, mt.top + 139, 28, 28))
          [] a = "hp_orb_text" -> Some(Rectangle(mt.left + 4, mt.top + 59, 22, 14))
          [] a = "prayer_orb_text" -> Some(Rectangle(mt.left + 4, mt.top + 93, 22, 14))
          [] a = "run_orb_text" -> Some(Rectangle(mt.left + 14, mt.top + 125, 22, 14))
          [] a = "spec_orb_text" -> Some(Rectangle(mt.left + 36, mt.top + 150, 22, 14))
          [] a = "minimap" -> Some(Rectangle(mt.left + 48, mt.top + 1, 162, 162))]

\* _locate_chat: the attributes derived from the template hit chat.
LocateChat(chat) ==
    LET num_tabs == 7
        num_lines == 8
        btn_height == 22
        btn_width == 56
        btn_spacing == 6
        scrollbar_width == 16
        scrollbar_x_offset == 1
        border_thickness == 6
        border_thickness_input_hist_separator == 1
        input_line_y_offset == 1
        line_height_ocr_bot_pad == 2
        line_height == 14
        x0 == 2
        y0 == btn_height + border_thickness + input_line_y_offset + line_height
              + border_thickness_input_hist_separator + line_height
    IN  [a \in ChatAttrs |->
          CASE a = "chat_tabs" ->
                 [k \in 1..num_tabs |->
                    Rectangle(chat.left + x0 + (k - 1) * (btn_width + btn_spacing),
                              chat.top + chat.height - btn_height, btn_width, btn_height)]
            [] a = "chat_tabs_all" ->
                 Some(Rectangle(chat.left,
                                chat.top + chat.height - btn_height - (border_thickness \div 2),
                                chat.width, btn_height + border_thickness))
            [] a = "chat_history" ->
                 [k \in 1..num_lines |->
                    Rectangle(chat.left + border_thickness,
                              chat.top + chat.height - y0 - ((k - 1) * line_height) - 1,
                              chat.width - 2 * border_thickness - scrollbar_width
                                - scrollbar_x_offset,
                              line_height + line_height_ocr_bot_pad)]
            [] a = "chat_input" ->
                 Some(Rectangle(chat.left + border_thickness,
                                chat.top + chat.height - y0 + line_height
                                  + border_thickness_input_hist_separator,
                                chat.width - 2 * border_thickness,
                                line_height + line_height_ocr_bot_pad))
            [] a = "chat" -> Some(chat)
            [] a = "_chat_area" ->
                 Some(Rectangle(chat.left, chat.top - 1, chat.width,
                                chat.height + line_height_ocr_bot_pad))]

\* _locate_cp_tabs: the 2 x 7 tabs; x advances by the width of each tab.
CpTabs(control_panel, cp_bot) ==
    LET slot_w_outer == 33 + 4
        slot_w_inner == 33
        slot_h == 36
        slot_w(j) == IF j \in {0, 7} THEN slot_w_outer ELSE slot_w_inner
        xAt(j) == control_panel.left + 1 + (IF j = 0 THEN 0 ELSE slot_w_outer + (j - 1) * slot_w_inner)
    IN  [k \in 1..14 |->
           LET i == (k - 1) \div 7
               j == (k - 1) % 7
           IN  Rectangle(xAt(j), IF i = 0 THEN control_panel.top ELSE cp_bot.top,
                         slot_w(j), slot_h)]

\* _locate_control_panel with the helpers _locate_hp_prayer_bars, _locate_cp_tabs,
\* _locate_inv_slots, _locate_prayers and _locate_spells.  It reads self.mode and
\* self._minimap_area as they are when the stage runs.
LocateControlPanel(w, m, cp) ==
    LET control_panel == Rectangle(cp.left, cp.top - 1, cp.width, cp.height + 1)
        area == IF m = "fixed_classic"
                    THEN Rectangle(Get(w, "_minimap_area").left, control_panel.top,
                                   Get(w, "_minimap_area").width, cp.height + 1)
                    ELSE control_panel
        hp_bar == Rectangle(control_panel.left + 6, control_panel.top + 42, 18, 250)
        prayer_bar == Rectangle(top_right(hp_bar).x + 192, hp_bar.top, 18, 250)
        cp_top == Rectangle(control_panel.left, control_panel.top, 2 * (33 + 4) + 5 * 33, 36)
        cp_bot == Rectangle(control_panel.left, control_panel.top + 36 + 263 - 1, 241, 36 + 1)
        inventory == Rectangle(control_panel.left + 27, control_panel.top + 41, 186, 251)
        cp_inner == inventory
    IN  [a \in ControlPanelAttrs |->
          CASE a = "control_panel" -> Some(control_panel)
            [] a = "_control_panel_area" -> Some(area)
            [] a = "hp_bar" -> Some(hp_bar)
            [] a = "prayer_bar" -> Some(prayer_bar)
            [] a = "cp_top" -> Some(cp_top)
            [] a = "cp_bot" -> Some(cp_bot)
            [] a = "cp_tabs" -> CpTabs(control_panel, cp_bot)
            [] a = "inventory" -> Some(inventory)
            [] a = "cp_inner" -> Some(cp_inner)
            [] a = "inventory_slots" ->
                 [k \in 1..28 |->
                    LET j == (k - 1) \div 4
                        i == (k - 1) % 4
                    IN  Rectangle(inventory.left + 9 + i * 42 - 1,
                                  inventory.top + 1 + j * 36 - 1, 42 + 1, 36 + 3)]
            [] a = "prayers" ->
                 \* 6 rows of 5, then `del self.prayers[29]`.
                 [k \in 1..29 |->
                    Rectangle(cp_inner.left + ((k - 1) % 5) * 37,
                              cp_inner.top + 3 + ((k - 1) \div 5) * 37, 37, 37)]
            [] a = "spellbook_normal" ->
                 \* 10 rows of 7, then `[:-5]`.
                 [k \in 1..65 |->
                    Rectangle(control_panel.left + 29 + ((k - 1) % 7) * 26,
                              control_panel.top + 36 + ((k - 1) \div 7) * 24, 26, 24)]]

\* The subtract_list entry of _game_view_area made from one region.
SubtractEntry(region, gva) ==
    [left |-> region.left - gva.left, top |-> region.top - gva.top,
     height |-> region.height, width |-> region.width]

\* The guard of _locate_game_view: all([self.minimap, self.chat, self.control_panel]).
GameViewGuard(w) == Truthy(w["minimap"]) /\ Truthy(w["chat"]) /\ Truthy(w["control_panel"])

\* _locate_game_view past its guard, with _locate_mouseover, _locate_grid_info,
\* _locate_current_action and _locate_xp_total.  It reads whatever minimap, chat and
\* control-panel attributes the window holds when the stage runs.
LocateGameView(w, m) ==
    LET chat == Get(w, "chat")
        mma == Get(w, "_minimap_area")
        cha == Get(w, "_chat_area")
        cpa == Get(w, "_control_panel_area")
        cpl == Get(w, "control_panel")
        gva == Rectangle(chat.left, mma.top, bottom_right(cpl).x - chat.left,
                         bottom_right(cpl).y - mma.top)
        pad == 3
        game_view == IF m = "fixed_classic"
                        THEN Rectangle(gva.left, gva.top, gva.width - mma.width + pad,
                                       gva.height - cha.height + pad)
                        ELSE gva
        char_height == 16
        dy == 1
        grid_info_width == 125
        left_offset == IF m = "fixed_classic" THEN 10 ELSE 6
        top_offset == IF m = "fixed_classic" THEN 28 ELSE 23
        grid_info == Rectangle(game_view.left + left_offset, game_view.top + top_offset,
                               grid_info_width, 3 * (char_height + dy))
        tile == Rectangle(grid_info.left, grid_info.top, grid_info_width, char_height + dy)
        chunk_id == Rectangle(tile.left, tile.top + tile.height - dy, grid_info_width,
                              char_height + dy)
        region_id == Rectangle(chunk_id.left, chunk_id.top + chunk_id.height - dy,
                               grid_info_width, char_height + 3 * dy)
    IN  [a \in GameViewAttrs |->
          CASE a = "_game_view_area" -> Some(gva)
            [] a = "_game_view_subtract_list" ->
                 << SubtractEntry(mma, gva), SubtractEntry(cha, gva), SubtractEntry(cpa, gva) >>
            [] a = "game_view" -> Some(game_view)
            [] a = "mouseover" -> Some(Rectangle(game_view.left, game_view.top, 407, 26))
            [] a = "grid_info" -> Some(grid_info)
            [] a = "tile" -> Some(tile)
            [] a = "chunk_id" -> Some(chunk_id)
            [] a = "region_id" -> Some(region_id)
            [] a = "current_action" ->
                 Some(Rectangle(game_view.left + 10, game_view.top + 24, 125, 18))
            [] a = "xp_total" ->
                 Some(Rectangle(mma.left - (IF m = "fixed_classic" THEN 105 ELSE 144),
                                game_view.top + (IF m = "fixed_classic" THEN 9 ELSE 4),
                                101, 16))]

\* search_img_in_rect, lines 110-113: a hit found in the capture of rect is shifted
\* by the origin of rect into the live frame.
ShiftIntoFrame(found_rect, rect) ==
    [found_rect EXCEPT !.left = @ + rect.left, !.top = @ + rect.top]

\* What one search_img_in_rect call of a calibration stage can do: return a
\* Rectangle, return None, or raise (unreadable template, failed grab).
SearchOutcomes == {"found", "none", "raise"}

\* Environment: where the client window may be on screen (Window.rectangle()).
ClientRects == {Rectangle(0, 0, 765, 503), Rectangle(120, 40, 765, 503)}

\* Environment: where each anchor template matches inside the capture of the client,
\* with the template's own width and height.
MinimapFixedHit == Rectangle(516, 0, 201, 164)

MinimapResizableHit == Rectangle(554, 0, 211, 168)

ChatHit == Rectangle(0, 338, 519, 165)

ControlPanelHit == Rectangle(522, 168, 241, 335)

\* The region groups, one per calibration stage.
Groups == {"minimap", "chat", "control_panel", "game_view"}

\* Bound on the number of initialize() calls explored.
MaxCalls == 2

\* A variant of InitializeReturn that forgets the control-panel stage.
InitializeReturnIgnoringC(a, b, c, d) == IF a /\ b /\ d THEN "True" ELSE "False"

\* initialize, lines 153-156: `if all([a, b, c, d]): return True` else `return False`.
InitializeReturn(a, b, c, d) == IF a /\ b /\ c /\ d THEN "True" ELSE "False"

WinInit ==
    /\ win = WinClassDefaults
    /\ mode = ""
    /\ calls = 0
    /\ initResult = "none"
    /\ stage = [a |-> "skipped", b |-> "skipped", c |-> "skipped", d |-> "skipped"]
    /\ anchors = [minimap |-> FALSE, chat |-> FALSE, control_panel |-> FALSE]
    /\ stamp = [g \in Groups |-> 0]
    /\ gvFrom = [g \in Groups \ {"game_view"} |-> 0]

Str(b) == IF b THEN "True" ELSE "False"

\* RuneLiteWindow.initialize: the four stages run in order inside one try block.  A
\* stage that does not find its anchor returns False and the next stages still run;
\* an exception ends the call at once with WindowInitializationError.  Attributes a
\* stage has assigned stay assigned however the call ends.
initialize ==
    /\ calls < MaxCalls
    /\ UNCHANGED exceptWin
    /\ \E open \in BOOLEAN, client_rect \in ClientRects,
          fx \in SearchOutcomes, rs \in SearchOutcomes,
          ch \in SearchOutcomes, cp \in SearchOutcomes :
        LET n == calls + 1
            \* self.rectangle() raises when no client window exists (window.py 62-66).
            \* _locate_minimap
            raisedA == fx = "raise" \/ (fx = "none" /\ rs = "raise")
            a == fx = "found" \/ (fx = "none" /\ rs = "found")
            w1 == IF fx = "found"
                     THEN LocateMinimapFixed(ShiftIntoFrame(MinimapFixedHit, client_rect)) @@ win
                     ELSE IF fx = "none" /\ rs = "found"
                     THEN LocateMinimapResizable(ShiftIntoFrame(MinimapResizableHit, client_rect)) @@ win
                     ELSE win
            m1 == IF fx = "found" THEN "fixed_classic"
                  ELSE IF fx = "none" /\ rs = "found" THEN "resizable_classic"
                  ELSE mode
            \* _locate_chat
            ranB == ~raisedA
            raisedB == ranB /\ ch = "raise"
            b == ranB /\ ch = "found"
            w2 == IF b THEN LocateChat(ShiftIntoFrame(ChatHit, client_rect)) @@ w1 ELSE w1
            \* _locate_control_panel
            ranC == ranB /\ ~raisedB
            raisedC == ranC /\ cp = "raise"
            c == ranC /\ cp = "found"
            w3 == IF c THEN LocateControlPanel(w2, m1, ShiftIntoFrame(ControlPanelHit, client_rect)) @@ w2
                  ELSE w2
            \* _locate_game_view
            ranD == ranC /\ ~raisedC
            d == ranD /\ GameViewGuard(w3)
            w4 == IF d THEN LocateGameView(w3, m1) @@ w3 ELSE w3
            st1 == [stamp EXCEPT !["minimap"] = IF a THEN n ELSE @,
                                 !["chat"] = IF b THEN n ELSE @,
                                 !["control_panel"] = IF c THEN n ELSE @,
                                 !["game_view"] = IF d THEN n ELSE @]
        IN  /\ calls' = n
            /\ IF ~open
                 THEN /\ initResult' = "raised"
                      /\ stage' = [a |-> "skipped", b |-> "skipped",
                                   c |-> "skipped", d |-> "skipped"]
                      /\ anchors' = [minimap |-> FALSE, chat |-> FALSE,
                                     control_panel |-> FALSE]
                      /\ UNCHANGED <<win, mode, stamp, gvFrom>>
                 ELSE /\ win' = w4
                      /\ mode' = m1
                      /\ initResult' = IF ranD THEN InitializeReturn(a, b, c, d) ELSE "raised"
                      /\ stage' = [a |-> IF raisedA THEN "skipped" ELSE Str(a),
                                   b |-> IF ranB /\ ~raisedB THEN Str(b) ELSE "skipped",
                                   c |-> IF ranC /\ ~raisedC THEN Str(c) ELSE "skipped",
                                   d |-> IF ranD THEN Str(d) ELSE "skipped"]
                      /\ anchors' = [minimap |-> a, chat |-> b, control_panel |-> c]
                      /\ stamp' = st1
                      /\ gvFrom' = IF d THEN [g \in Groups \ {"game_view"} |-> st1[g]]
                                   ELSE gvFrom

WinNext == initialize

-----------------------------------------------------------------------------
(* Template search: utilities/img_search.py                                *)

\* The increment of confidence after a rejected attempt, in thousandths (0.01).
ConfidenceStep == 10

\* Scores and thresholds are in thousandths: 150 is the default confidence 0.15.
Confidences == {0, 5, 150}

\* Environment: the minimum of the TM_SQDIFF_NORMED map of the capture (0 = verbatim).
MinVals == {0, 4, 5, 149, 150, 155, 165, 1000}

\* Bound on the num_retries argument explored.
MaxRetries == 3

\* Environment: where the minimum lies in the capture, and the template's shape.
MinLocs == {Point(0, 0), Point(7, 3)}

TemplateShape == [ww |-> 4, hh |-> 2]

\* Environment: the rect argument, a screen-anchored Rectangle.
SearchRects == {Rectangle(0, 0, 20, 10), Rectangle(100, 50, 20, 10)}

\* _search_img_in_img, lines 41-47: accept the global minimum when it is below the
\* threshold, else fall off the end (None).
search_img_in_img(min_val, min_loc, conf) ==
    IF min_val < conf
        THEN Some(from_points(Point(min_loc.x, min_loc.y),
                              Point(min_loc.x + TemplateShape.ww, min_loc.y + TemplateShape.hh)))
        ELSE None

\* The number of iterations of `for _ in range(num_retries)`.
LoopIterations(num_retries) == num_retries

SearchInit ==
    /\ sPc = "idle"
    /\ sArgs = [confidence |-> 0, num_retries |-> 0, min_val |-> 0,
                min_loc |-> Point(0, 0), rect |-> Rectangle(0, 0, 20, 10)]
    /\ confidence = 0
    /\ attempt = 0
    /\ tried = << >>
    /\ sResult = Outcome("unset", None)

\* search_img_in_rect, lines 103-107: read the template (ValueError when unreadable),
\* capture rect once, then enter the loop.
SearchCall ==
    /\ sPc \in {"idle", "done"}
    /\ UNCHANGED exceptSearch
    /\ \E c \in Confidences, n \in 0..MaxRetries, mv \in MinVals, loc \in MinLocs,
          r \in SearchRects, readable \in BOOLEAN :
        /\ sArgs' = [confidence |-> c, num_retries |-> n, min_val |-> mv,
                     min_loc |-> loc, rect |-> r]
        /\ confidence' = c
        /\ attempt' = 0
        /\ tried' = << >>
        /\ IF readable
             THEN sPc' = "loop" /\ sResult' = Outcome("unset", None)
             ELSE sPc' = "done" /\ sResult' = Outcome("raised", None)

\* One iteration of the loop, lines 108-115.
SearchAttempt ==
    /\ sPc = "loop"
    /\ attempt < LoopIterations(sArgs.num_retries)
    /\ LET found_rect == search_img_in_img(sArgs.min_val, sArgs.min_loc, confidence)
       IN  /\ attempt' = attempt + 1
           /\ tried' = Append(tried, confidence)
           /\ IF Truthy(found_rect)
                THEN /\ sResult' = Outcome("returned", Some(ShiftIntoFrame(found_rect[1], sArgs.rect)))
                     /\ sPc' = "done"
                     /\ UNCHANGED confidence
                ELSE /\ confidence' = confidence + ConfidenceStep
                     /\ UNCHANGED <<sResult, sPc>>
    /\ UNCHANGED sArgs
    /\ UNCHANGED exceptSearch

\* The loop is exhausted: the function falls off its end and returns None.
SearchExhausted ==
    /\ sPc = "loop"
    /\ attempt >= LoopIterations(sArgs.num_retries)
    /\ sResult' = Outcome("returned", None)
    /\ sPc' = "done"
    /\ UNCHANGED <<sArgs, confidence, attempt, tried>>
    /\ UNCHANGED exceptSearch

SearchNext == SearchCall \/ SearchAttempt \/ SearchExhausted

-----------------------------------------------------------------------------
(* Color isolation: utilities/color_util.py                                *)

\* Color.__init__ with a (lower, upper) tuple: lo and hi are kept as given.
Color(lo, hi) == [lo |-> lo, hi |-> hi]

Channels == 1..3

\* np.minimum / np.maximum, element-wise.
Minimum(u, v) == [ch \in Channels |-> IF u[ch] <= v[ch] THEN u[ch] ELSE v[ch]]

Maximum(u, v) == [ch \in Channels |-> IF u[ch] >= v[ch] THEN u[ch] ELSE v[ch]]

\* cv2.inRange: 255 where every channel lies in [lowerb, upperb], else 0.
inRange(image, lowerb, upperb) ==
    [k \in 1..Len(image) |->
        IF \A ch \in Channels : lowerb[ch] <= image[k][ch] /\ image[k][ch] <= upperb[ch]
            THEN 255 ELSE 0]

\* cv2.bitwise_or of two masks.
bitwise_or(m1, m2) == [k \in 1..Len(m1) |-> IF m1[k] = 255 \/ m2[k] = 255 THEN 255 ELSE 0]

\* The bounds isolate_colors hands to cv2.inRange for one color, lines 277-278.
IsolateBounds(color) == [lo |-> Minimum(color.lo, color.hi), hi |-> Maximum(color.lo, color.hi)]

\* isolate_colors, lines 275-286: one inRange mask per color, OR-ed onto a black mask.
RECURSIVE OrMasks(_, _)
OrMasks(mask, masks) ==
    IF masks = << >> THEN mask ELSE OrMasks(bitwise_or(mask, Head(masks)), Tail(masks))

isolate_colors(image, colors) ==
    LET masks == [k \in 1..Len(colors) |->
                    inRange(image, IsolateBounds(colors[k]).lo, IsolateBounds(colors[k]).hi)]
    IN  OrMasks([k \in 1..Len(image) |-> 0], masks)

\* isolate_contours, lines 307-310: the (HSV) image is thresholded with
\* cv2.inRange(image, color.lo, color.hi); everything after works on that mask.
isolate_contours_mask(image, color) == inRange(image, color.lo, color.hi)

\* Channel values of pixels and of color bounds explored.
PixelValues == {<<h, sv, 128>> : h \in {3, 7, 10}, sv \in {0, 128}}

BoundValues == {<<h, s, v>> : h \in {5, 10}, s \in {0, 255}, v \in {0, 255}}

ImagesExplored == {<<p, q>> : p \in PixelValues, q \in PixelValues}

\* A second color of the list given to isolate_colors.
OtherColor == Color(<<0, 0, 0>>, <<4, 255, 255>>)

ColorIdle ==
    /\ cImage = << >>
    /\ cColors = << >>
    /\ cMask = << >>
    /\ cThresh = << >>

ColorInit ==
    /\ cImage \in ImagesExplored
    /\ \E lo \in BoundValues, hi \in BoundValues :
          cColors \in {<<Color(lo, hi)>>, <<Color(lo, hi), OtherColor>>}
    /\ cMask = << >>
    /\ cThresh = << >>

IsolateColors ==
    /\ cImage # << >>
    /\ cMask = << >>
    /\ cMask' = isolate_colors(cImage, cColors)
    /\ UNCHANGED <<cImage, cColors, cThresh>>
    /\ UNCHANGED exceptColor

IsolateContours ==
    /\ cImage # << >>
    /\ cThresh = << >>
    /\ cThresh' = isolate_contours_mask(cImage, cColors[1])
    /\ UNCHANGED <<cImage, cColors, cMask>>
    /\ UNCHANGED exceptColor

ColorNext == IsolateColors \/ IsolateContours

-----------------------------------------------------------------------------
(* Contour extraction: utilities/extract_contours.py                       *)

\* The binary image is given by the white rectangles painted on it; a pixel is
\* foreground iff it lies in one of them.  Width and height of the image:
ImageShape == [width |-> 400, height |-> 400]

\* Environment: the white rectangles an image may show.
Blobs ==
    {Rectangle(0, 0, 130, 10),        \* top bar of an L
     Rectangle(0, 0, 10, 130),        \* left bar of an L
     Rectangle(135, 135, 10, 10),     \* a small blob just outside the L's bounding box
     Rectangle(20, 20, 5, 5),         \* a small blob inside the L's bounding box
     Rectangle(60, 60, 5, 5),         \* another, in a cell the L does not enter
     Rectangle(0, 0, 300, 300),       \* a 300 x 300 block
     Rectangle(150, 0, 126, 125),     \* bounding box just above 125 * 125
     Rectangle(270, 270, 125, 125)}   \* bounding box of exactly 125 * 125

Min(S) == CHOOSE v \in S : \A u \in S : v <= u

Max(S) == CHOOSE v \in S : \A u \in S : v >= u

\* Two white rectangles belong to one 8-connected region when they overlap or touch,
\* diagonally included.
Touching(a, b) ==
    /\ a.left <= b.left + b.width /\ b.left <= a.left + a.width
    /\ a.top <= b.top + b.height /\ b.top <= a.top + a.height

RECURSIVE Connected(_, _)
Connected(C, mask) ==
    LET N == C \cup {b \in mask : \E a \in C : Touching(a, b)}
    IN  IF N = C THEN C ELSE Connected(N, mask)

\* cv2.findContours(image, RETR_EXTERNAL, CHAIN_APPROX_NONE): one contour per
\* connected white region (the rectangles explored enclose no holes).  A contour is
\* identified with the rectangles of its region, which is also its filled interior.
findContours(mask) == {Connected({b}, mask) : b \in mask}

\* cv2.boundingRect(contour).
boundingRect(contour) ==
    LET x == Min({b.left : b \in contour})
        y == Min({b.top : b \in contour})
    IN  [x |-> x, y |-> y,
         width |-> Max({b.left + b.width : b \in contour}) - x,
         height |-> Max({b.top + b.height : b \in contour}) - y]

\* cv2.countNonZero(image[y0:y1, x0:x1]) > 0; the slice ends at the image border.
SliceHasWhite(mask, y0, y1, x0, x1) ==
    LET ye == IF y1 < ImageShape.height THEN y1 ELSE ImageShape.height
        xe == IF x1 < ImageShape.width THEN x1 ELSE ImageShape.width
    IN  \E b \in mask :
          /\ b.left < xe /\ x0 < b.left + b.width
          /\ b.top < ye /\ y0 < b.top + b.height

RuneLiteObject(xmin, xmax, ymin, ymax, width, height, domain) ==
    [xmin |-> xmin, xmax |-> xmax, ymin |-> ymin, ymax |-> ymax,
     width |-> width, height |-> height, domain |-> domain]

chunk_width == 50

chunk_height == 50

\* The largest bounding-box area emitted as one object, line 60.
WholeObjectArea == 125 * 125

\* range(0, n, step) as a sequence.
Range(n, step) == [k \in 1..((n + step - 1) \div step) |-> (k - 1) * step]

\* The rows of image the chunk test of a chunk starting at row offset i reads,
\* line 78: y + i : y + i + chunk_height.
ChunkTestRows(y, i, height) == [lo |-> y + i, hi |-> y + i + chunk_height]

\* The columns the chunk test reads, line 78: x + j : x + j + chunk_width.
ChunkTestCols(x, j, width) == [lo |-> x + j, hi |-> x + j + chunk_width]

\* Lines 72-96: the objects of one large contour, chunk by chunk in loop order.
ChunkObjects(mask, contour) ==
    LET br == boundingRect(contour)
        is == Range(br.height, chunk_height)
        js == Range(br.width, chunk_width)
        cells == [k \in 1..(Len(is) * Len(js)) |->
                    [i |-> is[((k - 1) \div Len(js)) + 1], j |-> js[((k - 1) % Len(js)) + 1]]]
        HasWhite(c) ==
            LET rows == ChunkTestRows(br.y, c.i, br.height)
                cols == ChunkTestCols(br.x, c.j, br.width)
            IN  SliceHasWhite(mask, rows.lo, rows.hi, cols.lo, cols.hi)
        kept == SelectSeq(cells, HasWhite)
    IN  [k \in 1..Len(kept) |->
           LET x_offset == br.x + kept[k].j
               y_offset == br.y + kept[k].i
               sub_width == IF chunk_width < br.width - kept[k].j
                               THEN chunk_width ELSE br.width - kept[k].j
               sub_height == IF chunk_height < br.height - kept[k].i
                                THEN chunk_height ELSE br.height - kept[k].i
           IN  RuneLiteObject(x_offset, x_offset + sub_width, y_offset, y_offset + sub_height,
                              sub_width, sub_height, contour)]

\* Lines 46-96: the objects emitted for one contour.
ContourObjects(mask, contour) ==
    LET br == boundingRect(contour)
        area == br.width * br.height
    IN  IF area <= WholeObjectArea
            THEN << RuneLiteObject(br.x, br.x + br.width, br.y, br.y + br.height,
                                   br.width, br.height, contour) >>
            ELSE ChunkObjects(mask, contour)

\* extract_contours: the objects of all contours, in the order findContours lists them.
RECURSIVE ObjectsOf(_, _)
ObjectsOf(mask, contours) ==
    IF contours = {} THEN << >>
    ELSE LET c == CHOOSE c \in contours : TRUE
         IN  ContourObjects(mask, c) \o ObjectsOf(mask, contours \ {c})

extract_contours(mask) == ObjectsOf(mask, findContours(mask))

ContourIdle ==
    /\ eMask = {}
    /\ ePc = "done"
    /\ eObjs = << >>

ContourInit ==
    /\ eMask \in SUBSET Blobs
    /\ ePc = "input"
    /\ eObjs = << >>

ExtractContours ==
    /\ ePc = "input"
    /\ eObjs' = extract_contours(eMask)
    /\ ePc' = "done"
    /\ UNCHANGED eMask
    /\ UNCHANGED exceptContour

ContourNext == ExtractContours

-----------------------------------------------------------------------------
(* Capture: Rectangle.screenshot, utilities/geometry.py                    *)

\* Environment: the shape of the captured rectangle (rows x columns of pixels).
ShotShape == [height |-> 2, width |-> 3]

ShotRows == 0..ShotShape.height - 1

ShotCols == 0..ShotShape.width - 1

\* Bound on the length of subtract_list explored.
MaxAreas == 2

\* Environment: the sub-rectangles a subtract_list may hold, in local coordinates.
\* The calibration code only builds entries with non-negative left and top.
Areas ==
    {[left |-> l, top |-> t, width |-> w, height |-> h] :
        l \in {0, 2}, t \in {0, 1}, w \in {0, 2, 3}, h \in {1, 2}}

\* Environment: what the screen shows (BGRA), with and without black pixels.
GrabbedImages ==
    {[rc \in ShotRows \X ShotCols |-> <<10 * rc[1] + rc[2] + 1, 50, 60, 255>>],
     [rc \in ShotRows \X ShotCols |->
        IF rc = <<0, 0>> THEN <<0, 0, 0, 255>> ELSE <<10 * rc[1] + rc[2] + 1, 50, 60, 255>>]}

\* The indices a Python slice start:stop selects on an axis of length n.
SliceIndices(start, stop, n) ==
    LET norm(v) == IF v < 0 THEN (IF v + n < 0 THEN 0 ELSE v + n)
                   ELSE (IF v > n THEN n ELSE v)
    IN  {k \in 0..n - 1 : norm(start) <= k /\ k < norm(stop)}

\* The rows an area selects, line 118: area["top"] : area["top"] + area["height"].
AreaRows(area) == SliceIndices(area.top, area.top + area.height, ShotShape.height)

\* A variant of AreaCols whose slice stops at the width instead of left + width.
AreaColsStopAtWidth(area) == SliceIndices(area.left, area.width, ShotShape.width)

\* The columns an area selects, line 119: area["left"] : area["left"] + area["width"].
AreaCols(area) == SliceIndices(area.left, area.left + area.width, ShotShape.width)

\* Line 113: img[:, :, :3] truncates the alpha channel.
TruncateAlpha(img) == [rc \in DOMAIN img |-> SubSeq(img[rc], 1, 3)]

\* Lines 117-120: one area of the buffer is set to 0.
ZeroArea(img, area) ==
    [rc \in DOMAIN img |->
        IF rc[1] \in AreaRows(area) /\ rc[2] \in AreaCols(area) THEN <<0, 0, 0>> ELSE img[rc]]

\* Lines 115-120: `if self.subtract_list:` then every area in turn.
RECURSIVE ZeroAreas(_, _)
ZeroAreas(img, areas) ==
    IF areas = << >> THEN img ELSE ZeroAreas(ZeroArea(img, Head(areas)), Tail(areas))

ShotIdle ==
    /\ subtract_list = << >>
    /\ grabbed = << >>
    /\ shPc = "done"
    /\ img_bgr = << >>

ShotInit ==
    /\ \E n \in 0..MaxAreas : subtract_list \in [1..n -> Areas]
    /\ grabbed \in GrabbedImages
    /\ shPc = "input"
    /\ img_bgr = << >>

\* Rectangle.screenshot: grab, truncate alpha, then black out the subtract_list.
screenshot ==
    /\ shPc = "input"
    /\ img_bgr' = ZeroAreas(TruncateAlpha(grabbed), subtract_list)
    /\ shPc' = "done"
    /\ UNCHANGED <<subtract_list, grabbed>>
    /\ UNCHANGED exceptShot

ShotNext == screenshot

-----------------------------------------------------------------------------
(* OCR: utilities/ocr.py                                                   *)

\* A font (FontDict): per character the width and height of its glyph bitmap.  A
\* Python string is the sequence of its characters.
Font == [c \in {" ", "a", "b"} |->
            [w |-> IF c = "a" THEN 5 ELSE IF c = "b" THEN 7 ELSE 4, h |-> 16]]

FontChars == DOMAIN Font

\* Scores are in hundredths; line 125 / 184: `correlation >= 0.98`.
CorrelationThreshold == 98

Scores == {97, 98}

\* Environment: the positions (x, y) of the correlation map explored: two on the
\* first text row, one at the start of a second row.
Positions == {Point(0, 0), Point(9, 0), Point(0, 20)}

\* A variant of HitKey that sorts by column first: itemgetter(1, 2).
HitKeyColumnFirst(hit) == <<hit.x, hit.y>>

\* The sort key of a char_list entry [char, x, y]: itemgetter(2, 1), that is (y, x).
HitKey(hit) == <<hit.y, hit.x>>

\* Tuple comparison k1 <= k2 of two keys.
KeyLeq(k1, k2) == k1[1] < k2[1] \/ (k1[1] = k2[1] /\ k1[2] <= k2[2])

\* sorted(char_list, key=...): stable, so an entry goes after the entries with an
\* equal key that precede it in the input.
RECURSIVE sorted(_)
sorted(list) ==
    IF list = << >> THEN << >>
    ELSE LET last == list[Len(list)]
             front == sorted(SubSeq(list, 1, Len(list) - 1))
             n == Cardinality({k \in 1..Len(front) : KeyLeq(HitKey(front[k]), HitKey(last))})
         IN  SubSeq(front, 1, n) \o << last >> \o SubSeq(front, n + 1, Len(front))

\* np.where(correlation >= 0.98) lists the positions in row-major order; each
\* becomes an entry [char, x, y] (lines 125 and 137, 184 and 185).
RECURSIVE RowMajor(_)
RowMajor(ps) ==
    IF ps = {} THEN << >>
    ELSE LET p == CHOOSE p \in ps : \A q \in ps : KeyLeq(<<p.y, p.x>>, <<q.y, q.x>>)
         IN  << p >> \o RowMajor(ps \ {p})

CharHits(corr, char) ==
    LET ps == RowMajor({p \in Positions : corr[char][p] >= CorrelationThreshold})
    IN  [k \in 1..Len(ps) |-> [char |-> char, x |-> ps[k].x, y |-> ps[k].y]]

\* scrape_text, lines 106-111: whether the loop skips a character of the font.
Skipped(char, exclude_chars, include_only_chars) ==
    IF include_only_chars.given
        THEN char \notin include_only_chars.chars
        ELSE char = " " \/ char \in exclude_chars

\* scrape_text, lines 105-137: char_list after the loop over the font, in font order.
RECURSIVE ScrapeHits(_, _, _, _)
ScrapeHits(corr, order, exclude_chars, include_only_chars) ==
    IF order = << >> THEN << >>
    ELSE (IF Skipped(Head(order), exclude_chars, include_only_chars)
             THEN << >> ELSE CharHits(corr, Head(order)))
         \o ScrapeHits(corr, Tail(order), exclude_chars, include_only_chars)

\* scrape_text, line 141: "".join(letter for letter, _, _ in char_list).
JoinLetters(list) == [k \in 1..Len(list) |-> list[k].char]

\* The orders in which a set of characters can be iterated.
RECURSIVE Orders(_)
Orders(S) ==
    IF S = {} THEN {<< >>}
    ELSE UNION {{<< c >> \o o : o \in Orders(S \ {c})} : c \in S}

NoText == [kind |-> "str", str |-> << >>, list |-> << >>]

NoInclude == [given |-> FALSE, chars |-> {}]

OcrIdle ==
    /\ correlation = << >>
    /\ oArgs = [call |-> "none", rect |-> Rectangle(0, 0, 0, 0), text |-> NoText,
                order |-> << >>,
                exclude_chars |-> {}, include_only_chars |-> NoInclude]
    /\ oPc = "idle"
    /\ char_list = << >>
    /\ matches = << >>
    /\ oResult = Outcome("unset", << >>)

\* Environment: the rect argument.
OcrRects == {Rectangle(0, 0, 40, 40), Rectangle(100, 50, 40, 40)}

\* The inputs of scrape_text: any correlation maps, any iteration order of the font
\* dictionary, the default or an explicit exclude list, or an include-only list.
ScrapeInit ==
    /\ correlation \in [FontChars -> [Positions -> Scores]]
    /\ \E order \in Orders(FontChars),
          ex \in {{}, {"b"}},
          inc \in {NoInclude, [given |-> TRUE, chars |-> {" ", "a"}]} :
            oArgs = [call |-> "scrape_text", rect |-> Rectangle(100, 50, 40, 40),
                     text |-> NoText, order |-> order,
                     exclude_chars |-> ex, include_only_chars |-> inc]
    /\ oPc = "input"
    /\ char_list = << >>
    /\ matches = << >>
    /\ oResult = Outcome("unset", << >>)

\* scrape_text, lines 102-141.
scrape_text ==
    /\ oPc = "input"
    /\ oArgs.call = "scrape_text"
    /\ LET list == sorted(ScrapeHits(correlation, oArgs.order, oArgs.exclude_chars,
                                     oArgs.include_only_chars))
       IN  /\ char_list' = list
           /\ oResult' = Outcome("returned", JoinLetters(list))
    /\ oPc' = "done"
    /\ UNCHANGED <<correlation, oArgs, matches>>
    /\ UNCHANGED exceptOcr

ScrapeNext == scrape_text

\* ---- find_textbox ----

\* Environment: the characters a search text is made of; "z" has no glyph in Font.
TextChars == {"a", "b", "z", " "}

MaxTextLen == 2

MaxWords == 2

Strings == UNION {[1..n -> TextChars] : n \in 0..MaxTextLen}

\* The text argument: one string, or a list of strings.
Texts ==
    {[kind |-> "str", str |-> t, list |-> << >>] : t \in Strings} \cup
    {[kind |-> "list", str |-> << >>, list |-> l] :
        l \in UNION {[1..n -> Strings] : n \in 1..MaxWords}}

\* str.replace(char, ""), lines 180 and 194.
Replace(str, char) == SelectSeq(str, LAMBDA c : c # char)

\* "".join(text), line 170: of a string the string itself, of a list the
\* concatenation of its elements.
RECURSIVE Concat(_)
Concat(list) == IF list = << >> THEN << >> ELSE Head(list) \o Concat(Tail(list))

Join(text) == IF text.kind = "str" THEN text.str ELSE Concat(text.list)

\* Line 170: the distinct input characters but the space.
DistinctChars(text) == {Join(text)[k] : k \in 1..Len(Join(text))} \ {" "}

\* Lines 176-185: the loop over the distinct characters, in the order the set yields
\* them.  A character without a glyph is removed from a string text; on a list text
\* `text.replace` raises AttributeError inside the handler.
RECURSIVE CharLoop(_, _, _, _)
CharLoop(corr, order, text, list) ==
    IF order = << >> THEN [text |-> text, char_list |-> list, raised |-> FALSE]
    ELSE IF Head(order) \notin FontChars
        THEN IF text.kind = "str"
                THEN CharLoop(corr, Tail(order),
                              [text EXCEPT !.str = Replace(@, Head(order))], list)
                ELSE [text |-> text, char_list |-> list, raised |-> TRUE]
        ELSE CharLoop(corr, Tail(order), text, list \o CharHits(corr, Head(order)))

\* haystack[i : i + len(word)], line 197, with i counted from 0.
Slice(haystack, i, n) == SubSeq(haystack, i + 1, Min({i + n, Len(haystack)}))

\* Lines 199-205: the Rectangle appended for a match of word at index i.
MatchRectangle(list, word, i, rect) ==
    LET left == list[i + 1].x
        top == list[i + 1].y
        shape == Font[word[Len(word)]]
        width == list[i + Len(word)].x - left + shape.w
    IN  Rectangle(left + rect.left, top + rect.top, width, shape.h)

\* Lines 195-206 for one word: the indices that match, in increasing order.  The
\* assignment to i on line 206 does not change what enumerate yields.
MatchIndices(haystack, word) ==
    {i \in 0..(Len(haystack) - 1) : Slice(haystack, i, Len(word)) = word}

RECURSIVE Ascending(_)
Ascending(S) == IF S = {} THEN << >> ELSE << Min(S) >> \o Ascending(S \ {Min(S)})

\* Lines 193-206: the loop over the words.  An empty word matches at every index of a
\* non-empty haystack and `word[-1]` then raises IndexError.
RECURSIVE WordLoop(_, _, _, _, _)
WordLoop(words, list, rect, found, ms) ==
    IF words = << >> THEN [found |-> found, matches |-> ms, raised |-> FALSE]
    ELSE LET word == Replace(Head(words), " ")
             is == Ascending(MatchIndices(JoinLetters(list), word))
         IN  IF is # << >> /\ word = << >>
                THEN [found |-> found, matches |-> ms, raised |-> TRUE]
                ELSE WordLoop(Tail(words), list, rect,
                        found \o [k \in 1..Len(is) |-> MatchRectangle(list, word, is[k], rect)],
                        ms \o [k \in 1..Len(is) |-> [word |-> word, i |-> is[k]]])

\* The inputs of find_textbox: any text, either search region, any correlation maps
\* of the glyphs that can be searched for.
TextboxInit ==
    /\ correlation \in {corr \in [FontChars -> [Positions -> Scores]] :
                           \A p \in Positions : corr[" "][p] = 97}
    /\ \E text \in Texts, rect \in OcrRects :
            oArgs = [call |-> "find_textbox", rect |-> rect, text |-> text,
                     order |-> << >>, exclude_chars |-> {}, include_only_chars |-> NoInclude]
    /\ oPc = "input"
    /\ char_list = << >>
    /\ matches = << >>
    /\ oResult = Outcome("unset", << >>)

\* find_textbox, lines 168-207.
find_textbox ==
    /\ oPc = "input"
    /\ oArgs.call = "find_textbox"
    /\ \E order \in Orders(DistinctChars(oArgs.text)) :
        LET loop == CharLoop(correlation, order, oArgs.text, << >>)
            list == sorted(loop.char_list)
            words == IF loop.text.kind = "str" THEN << loop.text.str >> ELSE loop.text.list
            out == WordLoop(words, list, oArgs.rect, << >>, << >>)
        IN  IF loop.raised
                THEN /\ oResult' = Outcome("raised", << >>)
                     /\ UNCHANGED <<char_list, matches>>
                ELSE /\ char_list' = list
                     /\ matches' = out.matches
                     /\ oResult' = IF out.raised THEN Outcome("raised", << >>)
                                   ELSE Outcome("returned", out.found)
    /\ oPc' = "done"
    /\ UNCHANGED <<correlation, oArgs>>
    /\ UNCHANGED exceptOcr

TextboxNext == find_textbox

-----------------------------------------------------------------------------
(* RuneLiteObject: utilities/geometry.py; find_colors: model/runelite_bot.py *)

\* A RuneLiteObject as __init__ leaves it: the class attribute `rect = None` shows.
Unreferenced(o) == [f \in DOMAIN o \cup {"rect"} |-> IF f = "rect" THEN None ELSE o[f]]

set_rectangle_reference(o, rect) == [o EXCEPT !.rect = Some(rect)]

\* How a method ended: with an exception of class `error`, or returning a Point.
Raise(error) == [kind |-> "raised", error |-> error, value |-> << >>]

Return(point) == [kind |-> "returned", error |-> "", value |-> << point >>]

NoResult == [kind |-> "unset", error |-> "", value |-> << >>]

\* Python's round(n / 2) for n >= 0: halves go to the even neighbour.
RoundHalf(n) ==
    IF n % 2 = 0 THEN n \div 2
    ELSE IF (n \div 2) % 2 = 0 THEN n \div 2 ELSE (n \div 2) + 1

\* RuneLiteObject.center, lines 323-331.  A Rectangle is always truthy.
center(o) ==
    IF ~Truthy(o.rect) THEN Raise("ReferenceError")
    ELSE Return(Point(o.rect[1].left + RoundHalf(o.xmin + o.xmax),
                      o.rect[1].top + RoundHalf(o.ymin + o.ymax)))

\* RuneLiteObject._relative_point, line 410: `self.rect.left` of None raises
\* AttributeError.
relative_point(o, point) ==
    IF o.rect = None THEN Raise("AttributeError")
    ELSE Return(Point(o.rect[1].left + point.x, o.rect[1].top + point.y))

pad == 5

\* RuneLiteObject._point_exists, lines 430-445, on a domain that is the union of
\* the white rectangles of the contour: argmax of an empty selection raises the
\* ValueError that the handler turns into False.
point_exists(o, point) ==
    LET at_x == {b \in o.domain : b.left <= point.x /\ point.x < b.left + b.width}
        at_y == {b \in o.domain : b.top <= point.y /\ point.y < b.top + b.height}
    IN  IF at_x = {} \/ at_y = {} THEN FALSE
        ELSE /\ Min({b.top : b \in at_x}) + pad <= point.y
             /\ point.y <= Max({b.top + b.height - 1 : b \in at_x}) - pad
             /\ Min({b.left : b \in at_y}) + pad <= point.x
             /\ point.x <= Max({b.left + b.width - 1 : b \in at_y}) - pad

\* Environment: points rd.random_point_in can draw in the box of the object, at the
\* quarters of its width and height.
RandomPoints(o) ==
    {Point(o.xmin + (o.width * fx) \div 4, o.ymin + (o.height * fy) \div 4) :
        fx \in 1..3, fy \in 1..3}

\* random_point, line 397: `if attempt > 100`.
MaxAttempts == 100

\* Environment: the white rectangles the thresholded image may show, and the
\* Rectangle searched.
ObjBlobs ==
    {Rectangle(135, 135, 10, 10), Rectangle(20, 20, 5, 5), Rectangle(150, 0, 126, 125),
     Rectangle(200, 200, 40, 12)}

ObjRects == {Rectangle(100, 50, 400, 400)}

NoObject == Unreferenced(RuneLiteObject(0, 0, 0, 0, 0, 0, {}))

ObjIdle ==
    /\ objMask = {}
    /\ objVia = "none"
    /\ objs = << >>
    /\ objOp = "none"
    /\ objSelf = NoObject
    /\ objPoint = Point(0, 0)
    /\ objAttempt = 0
    /\ objPc = "idle"
    /\ objResult = NoResult

ObjInit ==
    /\ objMask \in SUBSET ObjBlobs
    /\ objVia = "none"
    /\ objs = << >>
    /\ objOp = "none"
    /\ objSelf = NoObject
    /\ objPoint = Point(0, 0)
    /\ objAttempt = 0
    /\ objPc = "input"
    /\ objResult = NoResult

\* The objects as extract_contours constructs them.
Constructed(mask) ==
    LET list == extract_contours(mask)
    IN  [k \in 1..Len(list) |-> Unreferenced(list[k])]

\* RuneLiteBot.find_colors, lines 319-324; objMask is what isolate_contours returned.
find_colors ==
    /\ objPc = "input"
    /\ \E rect \in ObjRects :
        objs' = [k \in 1..Len(Constructed(objMask)) |->
                    set_rectangle_reference(Constructed(objMask)[k], rect)]
    /\ objVia' = "find_colors"
    /\ objPc' = "ready"
    /\ UNCHANGED <<objMask, objOp, objSelf, objPoint, objAttempt, objResult>>
    /\ UNCHANGED exceptObj

\* A caller that takes the objects from extract_contours itself.
extract_only ==
    /\ objPc = "input"
    /\ objs' = Constructed(objMask)
    /\ objVia' = "extract_contours"
    /\ objPc' = "ready"
    /\ UNCHANGED <<objMask, objOp, objSelf, objPoint, objAttempt, objResult>>
    /\ UNCHANGED exceptObj

\* obj.center on one of the objects.
CenterCall ==
    /\ objPc = "ready"
    /\ \E k \in 1..Len(objs) :
        /\ objSelf' = objs[k]
        /\ objResult' = center(objs[k])
    /\ objOp' = "center"
    /\ objPc' = "done"
    /\ UNCHANGED <<objMask, objVia, objs, objPoint, objAttempt>>
    /\ UNCHANGED exceptObj

\* random_point, lines 386-392: the first draw.
RandomPointCall ==
    /\ objPc = "ready"
    /\ \E k \in 1..Len(objs) :
        /\ objSelf' = objs[k]
        /\ objPoint' \in RandomPoints(objs[k])
    /\ objAttempt' = 0
    /\ objOp' = "random_point"
    /\ objPc' = "loop"
    /\ UNCHANGED <<objMask, objVia, objs, objResult>>
    /\ UNCHANGED exceptObj

\* random_point, lines 393 and 399: the point exists, the loop ends.
RandomPointFound ==
    /\ objPc = "loop"
    /\ point_exists(objSelf, objPoint)
    /\ objResult' = relative_point(objSelf, objPoint)
    /\ objPc' = "done"
    /\ UNCHANGED <<objMask, objVia, objs, objOp, objSelf, objPoint, objAttempt>>
    /\ UNCHANGED exceptObj

\* random_point, lines 393-397: another draw.
RandomPointRetry ==
    /\ objPc = "loop"
    /\ ~point_exists(objSelf, objPoint)
    /\ objAttempt + 1 <= MaxAttempts
    /\ objPoint' \in RandomPoints(objSelf)
    /\ objAttempt' = objAttempt + 1
    /\ UNCHANGED <<objMask, objVia, objs, objOp, objSelf, objPc, objResult>>
    /\ UNCHANGED exceptObj

\* random_point, lines 393-398: after more than 100 draws, `return self.center`.
RandomPointGiveUp ==
    /\ objPc = "loop"
    /\ ~point_exists(objSelf, objPoint)
    /\ objAttempt + 1 > MaxAttempts
    /\ objPoint' \in RandomPoints(objSelf)
    /\ objAttempt' = objAttempt + 1
    /\ objResult' = center(objSelf)
    /\ objPc' = "done"
    /\ UNCHANGED <<objMask, objVia, objs, objOp, objSelf>>
    /\ UNCHANGED exceptObj

ObjNext ==
    \/ find_colors
    \/ extract_only
    \/ CenterCall
    \/ RandomPointCall
    \/ RandomPointFound
    \/ RandomPointRetry
    \/ RandomPointGiveUp

-----------------------------------------------------------------------------
(* Walker: utilities/walker.py                                             *)

PIXELS_PER_TILE == 4

\* math.cos and math.sin of math.radians(angle) at the cardinal angles.  The float
\* values differ from these by less than 2e-16, which round() on lines 104-105
\* absorbs for every pixel delta below 2^50.
CardinalAngles == {0, 90, 180, 270}

Cos(angle) == CASE angle = 0 -> 1 [] angle = 90 -> 0 [] angle = 180 -> -1 [] angle = 270 -> 0

Sin(angle) == CASE angle = 0 -> 0 [] angle = 90 -> 1 [] angle = 180 -> 0 [] angle = 270 -> -1

\* get_pixel_distance, lines 96-107, for a Walker at tile (x, y) with the camera at
\* a cardinal angle.
get_pixel_distance(x, y, camera_angle, dest) ==
    LET x_reg == (dest.x - x) * PIXELS_PER_TILE
        y_reg == (y - dest.y) * PIXELS_PER_TILE
    IN  Point(x_reg * Cos(camera_angle) - y_reg * Sin(camera_angle),
              x_reg * Sin(camera_angle) + y_reg * Cos(camera_angle))

\* Environment: the tiles explored for the character and for the destination.
PixelTiles == {Point(x, y) : x \in 3200..3202, y \in 3200..3202}

\* __init__, lines 46-47: position and camera_angle are None; x and y do not exist.
NewWalker == [x |-> None, y |-> None, camera_angle |-> None]

PixelIdle ==
    /\ pxWorld = [tile |-> Point(0, 0), angle |-> 0]
    /\ pxDest = Point(0, 0)
    /\ pxSelf = NewWalker
    /\ pxPc = "idle"
    /\ pxResult = None

PixelInit ==
    /\ pxWorld \in [tile : PixelTiles, angle : CardinalAngles]
    /\ pxDest \in PixelTiles
    /\ pxSelf = NewWalker
    /\ pxPc = "input"
    /\ pxResult = None

\* get_pixel_distance, lines 93-107: update_position and update_camera_angle read
\* the game, then the delta is computed from what they stored.
GetPixelDistance ==
    /\ pxPc = "input"
    /\ pxSelf' = [x |-> Some(pxWorld.tile.x), y |-> Some(pxWorld.tile.y),
                  camera_angle |-> Some(pxWorld.angle)]
    /\ pxResult' = Some(get_pixel_distance(pxWorld.tile.x, pxWorld.tile.y, pxWorld.angle,
                                           pxDest))
    /\ pxPc' = "done"
    /\ UNCHANGED <<pxWorld, pxDest>>
    /\ UNCHANGED exceptPixel

PixelNext == GetPixelDistance

\* ---- Walker.walk ----

Abs(n) == IF n < 0 THEN -n ELSE n

\* A variant of has_arrived that pads by the whole side length.
has_arrived_side_pad(loc, dest, side) ==
    LET p == side
    IN  IF p = 0 THEN loc.x = dest.x /\ loc.y = dest.y
        ELSE /\ dest.x - p <= loc.x /\ loc.x <= dest.x + p
             /\ dest.y - p <= loc.y /\ loc.y <= dest.y + p

\* has_arrived, lines 177-185, with the default pad, for the position loc that
\* update_position stored.
has_arrived(loc, dest, side) ==
    LET p == side \div 2
    IN  IF p = 0 THEN loc.x = dest.x /\ loc.y = dest.y
        ELSE /\ dest.x - p <= loc.x /\ loc.x <= dest.x + p
             /\ dest.y - p <= loc.y /\ loc.y <= dest.y + p

\* get_target_posn, lines 145-146: the test a waypoint has to pass.
InHorizon(p, loc, horizon) ==
    Abs(p.x - loc.x) <= horizon /\ Abs(p.y - loc.y) <= horizon

\* get_target_posn, lines 141-148: next(i for i in range(len(walk_path) - 1, -1, -1)
\* if ...), from index i downward; 0 stands for StopIteration.
RECURSIVE SearchBack(_, _, _, _)
SearchBack(walk_path, loc, horizon, i) ==
    IF i < 1 THEN 0
    ELSE IF InHorizon(walk_path[i], loc, horizon) THEN i
    ELSE SearchBack(walk_path, loc, horizon, i - 1)

\* The same search from the front of the path, from index i upward.
RECURSIVE SearchFront(_, _, _, _)
SearchFront(walk_path, loc, horizon, i) ==
    IF i > Len(walk_path) THEN 0
    ELSE IF InHorizon(walk_path[i], loc, horizon) THEN i
    ELSE SearchFront(walk_path, loc, horizon, i + 1)

\* A variant of get_target_posn that searches the path front to back.
get_target_posn_front(loc, walk_path, horizon) ==
    LET ind == SearchFront(walk_path, loc, horizon, 1)
    IN  IF ind = 0 THEN None ELSE Some(walk_path[ind])

\* get_target_posn, lines 141-155: the waypoint the back-to-front search stops at, or
\* None (after the "Travel halted" message) when it finds none.
get_target_posn(loc, walk_path, horizon) ==
    LET ind == SearchBack(walk_path, loc, horizon, Len(walk_path))
    IN  IF ind = 0 THEN None ELSE Some(walk_path[ind])

\* has_arrived, lines 177-185, with the pad argument: None when omitted.
has_arrived_pad(loc, dest, padding, side) ==
    LET p == IF padding = None \/ padding = Some(0) THEN side \div 2 ELSE padding[1]
    IN  IF p = 0 THEN loc.x = dest.x /\ loc.y = dest.y
        ELSE /\ dest.x - p <= loc.x /\ loc.x <= dest.x + p
             /\ dest.y - p <= loc.y /\ loc.y <= dest.y + p

\* Environment: the tiles of the stretch of map explored.
MaxTile == 3

WalkTiles == {Point(x, 0) : x \in 0..MaxTile}

\* RuneLiteBot.get_world_point, lines 2106-2114: the tile read from the screen, or
\* (-1, -1) when the text could not be read.
WorldPoints(world) == {world.tile, Point(-1, -1)}

MaxPathLen == 2

\* Environment: the paths explored lead eastward.
WalkPaths ==
    {p \in UNION {[1..n -> WalkTiles] : n \in 1..MaxPathLen} :
        \A i \in 1..(Len(p) - 1) : p[i].x < p[i + 1].x}

WalkConfigs ==
    [MAX_HORIZON : {2}, DEST_SQUARE_SIDE_LENGTH : {1, 3}, reset_zoom_each_embark : BOOLEAN]

NoHist == [first |-> None, last |-> None, pointer |-> FALSE, clicks |-> FALSE,
           blocked |-> FALSE, after |-> {}]

WalkIdle ==
    /\ wkWorld = [tile |-> Point(0, 0), target |-> None]
    /\ wkCfg = [MAX_HORIZON |-> 12, DEST_SQUARE_SIDE_LENGTH |-> 1,
                reset_zoom_each_embark |-> TRUE]
    /\ wkArgs = [walk_path |-> << >>, dest |-> None]
    /\ wkLoc = None
    /\ wkLocal = [dest |-> Point(0, 0), new_pos |-> None, embarking |-> FALSE]
    /\ wkPc = "idle"
    /\ wkResult = "none"
    /\ wkHist = NoHist

\* A character at rest on some tile, a Walker of some configuration, and a call
\* walk(walk_path) or walk(walk_path, dest).
WalkInit ==
    /\ wkWorld \in [tile : WalkTiles, target : {None}]
    /\ wkCfg \in WalkConfigs
    /\ wkArgs \in [walk_path : WalkPaths, dest : {None} \cup {Some(t) : t \in WalkTiles}]
    /\ wkLoc = None
    /\ wkLocal = [dest |-> Point(0, 0), new_pos |-> None, embarking |-> FALSE]
    /\ wkPc = "input"
    /\ wkResult = "none"
    /\ wkHist = NoHist

\* walk, lines 203-212: `dest = dest or walk_path[-1]` (a Point is a non-empty
\* tuple, hence truthy) and `embarking = True`.
WalkCall ==
    /\ wkPc = "input"
    /\ wkLocal' = [dest |-> IF wkArgs.dest # None THEN wkArgs.dest[1]
                            ELSE wkArgs.walk_path[Len(wkArgs.walk_path)],
                   new_pos |-> None, embarking |-> TRUE]
    /\ wkPc' = "while"
    /\ UNCHANGED <<wkWorld, wkCfg, wkArgs, wkLoc, wkResult, wkHist>>
    /\ UNCHANGED exceptWalk

\* walk, line 213: `while not self.has_arrived(dest)`, and `return True` on line 224
\* when the loop ends.
WalkWhile ==
    /\ wkPc = "while"
    /\ \E loc \in WorldPoints(wkWorld) :
        /\ wkLoc' = Some(loc)
        /\ wkHist' = [wkHist EXCEPT
                        !.first = IF @ = None THEN Some(loc) ELSE @,
                        !.last = Some(loc),
                        !.after = IF wkHist.blocked THEN @ \cup {"loop"} ELSE @]
        /\ IF has_arrived(loc, wkLocal.dest, wkCfg.DEST_SQUARE_SIDE_LENGTH)
              THEN wkResult' = "True" /\ wkPc' = "done"
              ELSE wkResult' = wkResult /\ wkPc' = "target"
    /\ UNCHANGED <<wkWorld, wkCfg, wkArgs, wkLocal>>
    /\ UNCHANGED exceptWalk

\* walk, lines 214-221: get_target_posn, then on the first iteration the pointer
\* goes to the minimap and right-clicks to reset the zoom.
WalkTarget ==
    /\ wkPc = "target"
    /\ \E loc \in WorldPoints(wkWorld) :
        LET new_pos == get_target_posn(loc, wkArgs.walk_path, wkCfg.MAX_HORIZON)
            zoom == wkCfg.reset_zoom_each_embark /\ wkLocal.embarking
        IN  /\ wkLoc' = Some(loc)
            /\ wkLocal' = [wkLocal EXCEPT !.new_pos = new_pos,
                                          !.embarking = IF zoom THEN FALSE ELSE @]
            /\ wkHist' = [wkHist EXCEPT
                            !.pointer = @ \/ zoom,
                            !.after = IF wkHist.blocked THEN @ \cup {"search"} ELSE @,
                            !.blocked = @ \/ new_pos = None]
    /\ wkPc' = "check"
    /\ UNCHANGED <<wkWorld, wkCfg, wkArgs, wkResult>>
    /\ UNCHANGED exceptWalk

\* walk, lines 222-223: the second arrival check, `break`, and `return True`.
WalkCheck ==
    /\ wkPc = "check"
    /\ \E loc \in WorldPoints(wkWorld) :
        /\ wkLoc' = Some(loc)
        /\ wkHist' = [wkHist EXCEPT !.last = Some(loc)]
        /\ IF has_arrived(loc, wkLocal.dest, wkCfg.DEST_SQUARE_SIDE_LENGTH)
              THEN wkResult' = "True" /\ wkPc' = "done"
              ELSE wkResult' = wkResult /\ wkPc' = "change"
    /\ UNCHANGED <<wkWorld, wkCfg, wkArgs, wkLocal>>
    /\ UNCHANGED exceptWalk

\* The tile a click at the pixel delta of get_pixel_distance sends the character
\* to, with the camera facing north: the delta taken from where the character is.
ClickedTile(world, loc, new_pos) ==
    LET d == get_pixel_distance(loc.x, loc.y, 0, new_pos)
    IN  Point(world.tile.x + d.x \div PIXELS_PER_TILE, world.tile.y - d.y \div PIXELS_PER_TILE)

\* walk, line 224 with change_position, lines 116-123: with new_pos None,
\* get_pixel_distance raises AttributeError on `dest.x`, which walk's handler on lines
\* 226-232 turns into `return False`; otherwise the pointer moves to the minimap
\* pixel and clicks, and the character sets out for the tile clicked if the map has it.
WalkChange ==
    /\ wkPc = "change"
    /\ \E loc \in WorldPoints(wkWorld) :
        /\ wkLoc' = Some(loc)
        /\ IF wkLocal.new_pos = None
              THEN /\ wkResult' = "False"
                   /\ wkPc' = "done"
                   /\ UNCHANGED <<wkWorld, wkHist>>
              ELSE /\ wkResult' = wkResult
                   /\ wkPc' = "while"
                   /\ wkHist' = [wkHist EXCEPT
                                    !.pointer = TRUE, !.clicks = TRUE,
                                    !.after = IF wkHist.blocked THEN @ \cup {"click"} ELSE @]
                   /\ LET t == ClickedTile(wkWorld, loc, wkLocal.new_pos[1])
                      IN  wkWorld' = IF t \in WalkTiles
                                        THEN [wkWorld EXCEPT !.target = Some(t)]
                                        ELSE wkWorld
    /\ UNCHANGED <<wkCfg, wkArgs, wkLocal>>
    /\ UNCHANGED exceptWalk

Sign(n) == IF n < 0 THEN -1 ELSE IF n > 0 THEN 1 ELSE 0

\* The game: the character takes a step toward the tile it is walking to.
CharacterStep ==
    /\ wkPc \in {"while", "target", "check", "change"}
    /\ wkWorld.target # None
    /\ wkWorld.target[1] # wkWorld.tile
    /\ wkWorld' = [wkWorld EXCEPT
                    !.tile = Point(@.x + Sign(wkWorld.target[1].x - @.x),
                                   @.y + Sign(wkWorld.target[1].y - @.y))]
    /\ UNCHANGED <<wkCfg, wkArgs, wkLoc, wkLocal, wkPc, wkResult, wkHist>>
    /\ UNCHANGED exceptWalk

WalkNext ==
    \/ WalkCall
    \/ WalkWhile
    \/ WalkTarget
    \/ WalkCheck
    \/ WalkChange
    \/ CharacterStep

\* ---- Walker.add_waypoints ----

\* The square of distance(p1, p2), lines 295-306.
Distance2(p1, p2) == (p2.x - p1.x) * (p2.x - p1.x) + (p2.y - p1.y) * (p2.y - p1.y)

\* math.ceil(dist / 10), line 327, from the squared distance: the least n with
\* (10 * n)^2 >= dist^2.
CeilTenth(d2) == CHOOSE n \in 0..d2 : 100 * n * n >= d2 /\ (n = 0 \/ 100 * (n - 1) * (n - 1) < d2)

\* Python's round(a / n) for n > 0: to the nearest integer, halves to the even one.
RoundDiv(a, n) ==
    LET q == a \div n
        r == a - q * n
    IN  IF 2 * r < n THEN q
        ELSE IF 2 * r > n THEN q + 1
        ELSE IF q % 2 = 0 THEN q ELSE q + 1

\* Lines 328-333: the i-th of the waypoints put between p1 and p2.
Intermediate(p1, p2, num_waypoints, i) ==
    Point(RoundDiv(p1.x * num_waypoints + i * (p2.x - p1.x), num_waypoints),
          RoundDiv(p1.y * num_waypoints + i * (p2.y - p1.y), num_waypoints))

\* A variant of StepItems that caps a step with p2 before its intermediate waypoints.
StepItemsCapFirst(walk_path, step, max_waypoint_dist) ==
    LET p1 == walk_path[step]
        p2 == walk_path[step + 1]
        d2 == Distance2(p1, p2)
        num_waypoints == IF d2 > max_waypoint_dist * max_waypoint_dist THEN CeilTenth(d2) ELSE 1
    IN  << [point |-> p2, orig |-> step + 1, step |-> step] >>
        \o [i \in 1..(num_waypoints - 1) |->
            [point |-> Intermediate(p1, p2, num_waypoints, i), orig |-> 0, step |-> step]]

\* Lines 321-336, one pass of the loop: what the step from walk_path[step] appends,
\* each waypoint with the index of the original it is (orig, 0 for an intermediate
\* waypoint) and the step that appended it.
StepItems(walk_path, step, max_waypoint_dist) ==
    LET p1 == walk_path[step]
        p2 == walk_path[step + 1]
        d2 == Distance2(p1, p2)
        num_waypoints == IF d2 > max_waypoint_dist * max_waypoint_dist THEN CeilTenth(d2) ELSE 1
    IN  [i \in 1..(num_waypoints - 1) |->
            [point |-> Intermediate(p1, p2, num_waypoints, i), orig |-> 0, step |-> step]]
        \o << [point |-> p2, orig |-> step + 1, step |-> step] >>

RECURSIVE StepsFrom(_, _, _)
StepsFrom(walk_path, step, max_waypoint_dist) ==
    IF step > Len(walk_path) - 1 THEN << >>
    ELSE StepItems(walk_path, step, max_waypoint_dist)
         \o StepsFrom(walk_path, step + 1, max_waypoint_dist)

\* add_waypoints, lines 320-337.
add_waypoints(walk_path, max_waypoint_dist) ==
    << [point |-> walk_path[1], orig |-> 1, step |-> 0] >>
    \o StepsFrom(walk_path, 1, max_waypoint_dist)

\* Environment: the tiles the paths explored go through, and the configurations.
WaypointTiles == {Point(x, y) : x \in {0, 7, 19}, y \in {0, 6}}

MaxWaypoints == 3

WaypointPaths == UNION {[1..n -> WaypointTiles] : n \in 1..MaxWaypoints}

WaypointDists == {5, 10}

WaypointIdle ==
    /\ wpArgs = [walk_path |-> << >>, MAX_WAYPOINT_DIST |-> 10]
    /\ wpPc = "idle"
    /\ wpOut = << >>
    /\ wpFrom = << >>

WaypointInit ==
    /\ wpArgs \in [walk_path : WaypointPaths, MAX_WAYPOINT_DIST : WaypointDists]
    /\ wpPc = "input"
    /\ wpOut = << >>
    /\ wpFrom = << >>

AddWaypoints ==
    /\ wpPc = "input"
    /\ LET items == add_waypoints(wpArgs.walk_path, wpArgs.MAX_WAYPOINT_DIST)
       IN  /\ wpOut' = [k \in 1..Len(items) |-> items[k].point]
           /\ wpFrom' = [k \in 1..Len(items) |-> [orig |-> items[k].orig, step |-> items[k].step]]
    /\ wpPc' = "done"
    /\ UNCHANGED wpArgs
    /\ UNCHANGED exceptWaypoint

WaypointNext == AddWaypoints

\* ---- Walker.travel_to_dest_along_path ----

\* How walk(path, dest) can end, lines 203-232: `walk_path[-1]` on an empty path
\* raises IndexError before the try; otherwise walk returns True or False.
WalkEnds(path) == IF path = << >> THEN {"raised"} ELSE {"True", "False"}

\* walk_to, lines 257-265, with get_api_walk_path, lines 287-293: the host's path
\* with waypoints added, or [] when the request failed, is walked.
WalkToEnds(api_path) ==
    WalkEnds(IF api_path # << >>
                THEN [k \in 1..Len(add_waypoints(api_path, 10)) |->
                        add_waypoints(api_path, 10)[k].point]
                ELSE << >>)

\* Environment: the paths a host answers with or the caller hard-codes.
TravelPaths == {<< >>} \cup WalkPaths

TravelIdle ==
    /\ tvApi = [dax |-> << >>, osrspf |-> << >>]
    /\ tvArgs = [walk_path |-> << >>]
    /\ tvPc = "idle"
    /\ tvTried = << >>
    /\ tvResult = "none"

TravelInit ==
    /\ tvApi \in [dax : TravelPaths, osrspf : TravelPaths]
    /\ tvArgs \in [walk_path : TravelPaths]
    /\ tvPc = "dax"
    /\ tvTried = << >>
    /\ tvResult = "none"

\* What follows an attempt, lines 359-373: True is returned when the tier returned
\* True; an exception leads to the handler, that is the tier `onRaise`, or after the
\* last tier `return False`; a tier that returned False leaves the if and the try,
\* and the function ends without a return statement.
AfterTier(tier, end, onRaise) ==
    /\ tvTried' = Append(tvTried, [tier |-> tier, end |-> end])
    /\ IF end = "True" THEN tvResult' = "True" /\ tvPc' = "done"
       ELSE IF end = "False" THEN tvResult' = "None" /\ tvPc' = "done"
       ELSE IF onRaise = "done" THEN tvResult' = "False" /\ tvPc' = "done"
       ELSE tvResult' = tvResult /\ tvPc' = onRaise
    /\ UNCHANGED <<tvApi, tvArgs>>
    /\ UNCHANGED exceptTravel

\* Lines 359-362.
TryDax ==
    /\ tvPc = "dax"
    /\ \E end \in WalkToEnds(tvApi.dax) : AfterTier("dax", end, "osrspf")

\* Lines 363-366.
TryOsrspf ==
    /\ tvPc = "osrspf"
    /\ \E end \in WalkToEnds(tvApi.osrspf) : AfterTier("osrspf", end, "manual")

\* Lines 367-373.
TryManual ==
    /\ tvPc = "manual"
    /\ \E end \in WalkEnds(tvArgs.walk_path) : AfterTier("manual", end, "done")

TravelNext ==
    \/ TryDax
    \/ TryOsrspf
    \/ TryManual

-----------------------------------------------------------------------------
(* Mouse: utilities/mouse.py                                               *)

\* click, lines 207-208, in milliseconds.
LOWER_BOUND_CLICK == 30

UPPER_BOUND_CLICK == 200

\* Environment: the samples of trunc_norm_samp explored; it returns a value between
\* its bounds.
ClickSamples == {LOWER_BOUND_CLICK, 60, UPPER_BOUND_CLICK}

Event(call, what, ms) == [call |-> call, what |-> what, ms |-> ms]

\* The calls: click(button, hold_key, force_delay, check_red_click), and
\* right_click(force_delay), which is click(button="right", force_delay=force_delay).
\* A hold_key of None is the empty sequence.
ClickCalls ==
    [method : {"click"}, button : {"left", "right"}, hold_key : {None, Some("shift")},
     force_delay : BOOLEAN, check_red_click : BOOLEAN]
    \cup
    [method : {"right_click"}, button : {"right"}, hold_key : {None},
     force_delay : BOOLEAN, check_red_click : {FALSE}]

ClickIdle ==
    /\ clArgs = [method |-> "click", button |-> "left", hold_key |-> None,
                 force_delay |-> TRUE, check_red_click |-> FALSE]
    /\ clPc = "idle"
    /\ clEvents = << >>
    /\ clPressed = {}
    /\ clResult = "none"

ClickInit ==
    /\ clArgs \in ClickCalls
    /\ clPc = "keyDown"
    /\ clEvents = << >>
    /\ clPressed = {}
    /\ clResult = "none"

\* Lines 202-203.
ClickKeyDown ==
    /\ clPc = "keyDown"
    /\ IF clArgs.hold_key # None
          THEN /\ clEvents' = Append(clEvents, Event("keyDown", clArgs.hold_key[1], 0))
               /\ clPressed' = clPressed \cup {clArgs.hold_key[1]}
          ELSE UNCHANGED <<clEvents, clPressed>>
    /\ clPc' = "mouseDown"
    /\ UNCHANGED <<clArgs, clResult>>
    /\ UNCHANGED exceptClick

\* Line 204.
ClickMouseDown ==
    /\ clPc = "mouseDown"
    /\ clEvents' = Append(clEvents, Event("mouseDown", clArgs.button, 0))
    /\ clPressed' = clPressed \cup {clArgs.button}
    /\ clPc' = "sleep"
    /\ UNCHANGED <<clArgs, clResult>>
    /\ UNCHANGED exceptClick

\* Lines 206-212: the hold, only when force_delay.
ClickSleep ==
    /\ clPc = "sleep"
    /\ IF clArgs.force_delay
          THEN \E ms \in ClickSamples : clEvents' = Append(clEvents, Event("sleep", "", ms))
          ELSE UNCHANGED clEvents
    /\ clPc' = "mouseUp"
    /\ UNCHANGED <<clArgs, clPressed, clResult>>
    /\ UNCHANGED exceptClick

\* Line 213.
ClickMouseUp ==
    /\ clPc = "mouseUp"
    /\ clEvents' = Append(clEvents, Event("mouseUp", clArgs.button, 0))
    /\ clPressed' = clPressed \ {clArgs.button}
    /\ clPc' = "keyUp"
    /\ UNCHANGED <<clArgs, clResult>>
    /\ UNCHANGED exceptClick

\* Lines 214-215.
ClickKeyUp ==
    /\ clPc = "keyUp"
    /\ IF clArgs.hold_key # None
          THEN /\ clEvents' = Append(clEvents, Event("keyUp", clArgs.hold_key[1], 0))
               /\ clPressed' = clPressed \ {clArgs.hold_key[1]}
          ELSE UNCHANGED <<clEvents, clPressed>>
    /\ clPc' = "red"
    /\ UNCHANGED <<clArgs, clResult>>
    /\ UNCHANGED exceptClick

\* Lines 216-217: the red-click check, whose answer depends on the screen; without
\* it click returns None.  right_click returns None.
ClickReturn ==
    /\ clPc = "red"
    /\ IF clArgs.check_red_click
          THEN clResult' \in {"True", "False"}
          ELSE clResult' = "None"
    /\ clPc' = "done"
    /\ UNCHANGED <<clArgs, clEvents, clPressed>>
    /\ UNCHANGED exceptClick

ClickNext ==
    \/ ClickKeyDown
    \/ ClickMouseDown
    \/ ClickSleep
    \/ ClickMouseUp
    \/ ClickKeyUp
    \/ ClickReturn

-----------------------------------------------------------------------------
(* Camera: RuneLiteBot.move_camera, model/runelite_bot.py                  *)

\* Lines 630-641: the key-hold times, in units of 10 ns: 3.5626031001 s per 360
\* degrees horizontally and 1.75 s per 90 degrees vertically.  Rounded to this unit
\* the two times compare as the floats do for every pair of rotations in range.
HoldPerDegreeH == 989612

HoldPerDegreeV == 1944444

sleep_h(horizontal) == HoldPerDegreeH * Abs(horizontal)

sleep_v(vertical) == HoldPerDegreeV * Abs(vertical)

\* Lines 642-643.
direction_h(horizontal) == IF horizontal < 0 THEN "left" ELSE "right"

direction_v(vertical) == IF vertical < 0 THEN "down" ELSE "up"

\* Lines 618-627: the arguments for which move_camera raises ValueError.
CameraRejects(horizontal, vertical) ==
    \/ horizontal = 0 /\ vertical = 0
    \/ horizontal < -360 \/ horizontal > 360
    \/ vertical < -90 \/ vertical > 90

\* Line 662: rd.biased_trunc_norm_samp(0, max(sleep_h, sleep_v)) returns a value
\* between its bounds; the least, the middle and the greatest are explored.
CameraDelays(horizontal, vertical) ==
    LET hi == Max({sleep_h(horizontal), sleep_v(vertical)})
    IN  {0, hi \div 2, hi}

\* Environment: the rotations asked for.
CameraHorizontals == {-400, -2, 0, 1, 2}

CameraVerticals == {-100, -1, 0, 1}

NewThread == [pc |-> "new", key |-> "", hold |-> 0, wake |-> 0]

CameraIdle ==
    /\ cmArgs = [horizontal |-> 0, vertical |-> 0, delay |-> 0]
    /\ cmNow = 0
    /\ cmMain = [pc |-> "idle", wake |-> 0]
    /\ cmThreads = [h |-> NewThread, v |-> NewThread]
    /\ cmEvents = << >>
    /\ cmPressed = {}
    /\ cmResult = "none"

CameraInit ==
    /\ \E horizontal \in CameraHorizontals, vertical \in CameraVerticals :
        \E delay \in CameraDelays(horizontal, vertical) :
            cmArgs = [horizontal |-> horizontal, vertical |-> vertical, delay |-> delay]
    /\ cmNow = 0
    /\ cmMain = [pc |-> "call", wake |-> 0]
    /\ cmThreads = [h |-> NewThread, v |-> NewThread]
    /\ cmEvents = << >>
    /\ cmPressed = {}
    /\ cmResult = "none"

KeyEvent(what, key, by) == [what |-> what, key |-> key, by |-> by]

\* Lines 618-661: the checks, the hold times, and the branch taken.
MoveCameraCall ==
    /\ cmMain.pc = "call"
    /\ IF CameraRejects(cmArgs.horizontal, cmArgs.vertical)
          THEN /\ cmResult' = "raised"
               /\ cmMain' = [cmMain EXCEPT !.pc = "done"]
               /\ UNCHANGED cmThreads
          ELSE /\ cmResult' = cmResult
               /\ cmThreads' =
                    [h |-> [pc |-> "new", key |-> direction_h(cmArgs.horizontal),
                            hold |-> sleep_h(cmArgs.horizontal), wake |-> 0],
                     v |-> [pc |-> "new", key |-> direction_v(cmArgs.vertical),
                            hold |-> sleep_v(cmArgs.vertical), wake |-> 0]]
               /\ cmMain' = [cmMain EXCEPT !.pc =
                                IF cmArgs.vertical # 0 /\ cmArgs.horizontal = 0 THEN "inline_v"
                                ELSE IF cmArgs.horizontal # 0 /\ cmArgs.vertical = 0 THEN "inline_h"
                                ELSE "start_first"]
    /\ UNCHANGED <<cmArgs, cmNow, cmEvents, cmPressed>>
    /\ UNCHANGED exceptCamera

\* Lines 651-654 with keypress, lines 646-647: the caller itself presses the key.
InlineKeyDown ==
    /\ cmMain.pc \in {"inline_h", "inline_v"}
    /\ LET t == IF cmMain.pc = "inline_h" THEN cmThreads.h ELSE cmThreads.v
       IN  /\ cmEvents' = Append(cmEvents, KeyEvent("keyDown", t.key, "main"))
           /\ cmPressed' = cmPressed \cup {t.key}
           /\ cmMain' = [pc |-> IF cmMain.pc = "inline_h" THEN "held_h" ELSE "held_v",
                         wake |-> cmNow + t.hold]
    /\ UNCHANGED <<cmArgs, cmNow, cmThreads, cmResult>>
    /\ UNCHANGED exceptCamera

\* keypress, line 648, by the caller, once its sleep is over; move_camera returns.
InlineKeyUp ==
    /\ cmMain.pc \in {"held_h", "held_v"}
    /\ cmNow >= cmMain.wake
    /\ LET t == IF cmMain.pc = "held_h" THEN cmThreads.h ELSE cmThreads.v
       IN  /\ cmEvents' = Append(cmEvents, KeyEvent("keyUp", t.key, "main"))
           /\ cmPressed' = cmPressed \ {t.key}
    /\ cmMain' = [cmMain EXCEPT !.pc = "done"]
    /\ cmResult' = "returned"
    /\ UNCHANGED <<cmArgs, cmNow, cmThreads>>
    /\ UNCHANGED exceptCamera

\* Line 663: the thread started first is thread_h when sleep_h > sleep_v.
FirstThread == IF cmThreads.h.hold > cmThreads.v.hold THEN "h" ELSE "v"

SecondThread == IF FirstThread = "h" THEN "v" ELSE "h"

\* Lines 664-665 or 668-669: start the first thread, then sleep for the delay.
StartFirst ==
    /\ cmMain.pc = "start_first"
    /\ cmThreads' = [cmThreads EXCEPT ![FirstThread].pc = "started"]
    /\ cmMain' = [pc |-> "delay", wake |-> cmNow + cmArgs.delay]
    /\ UNCHANGED <<cmArgs, cmNow, cmEvents, cmPressed, cmResult>>
    /\ UNCHANGED exceptCamera

\* Line 666 or 670: start the second thread once the sleep is over.
StartSecond ==
    /\ cmMain.pc = "delay"
    /\ cmNow >= cmMain.wake
    /\ cmThreads' = [cmThreads EXCEPT ![SecondThread].pc = "started"]
    /\ cmMain' = [cmMain EXCEPT !.pc = "join_h"]
    /\ UNCHANGED <<cmArgs, cmNow, cmEvents, cmPressed, cmResult>>
    /\ UNCHANGED exceptCamera

\* keypress in a thread, lines 646-647.
ThreadKeyDown ==
    /\ \E t \in {"h", "v"} :
        /\ cmThreads[t].pc = "started"
        /\ cmEvents' = Append(cmEvents, KeyEvent("keyDown", cmThreads[t].key, t))
        /\ cmPressed' = cmPressed \cup {cmThreads[t].key}
        /\ cmThreads' = [cmThreads EXCEPT ![t].pc = "holding",
                                          ![t].wake = cmNow + cmThreads[t].hold]
    /\ UNCHANGED <<cmArgs, cmNow, cmMain, cmResult>>
    /\ UNCHANGED exceptCamera

\* keypress in a thread, line 648, once its sleep is over; the thread ends.
ThreadKeyUp ==
    /\ \E t \in {"h", "v"} :
        /\ cmThreads[t].pc = "holding"
        /\ cmNow >= cmThreads[t].wake
        /\ cmEvents' = Append(cmEvents, KeyEvent("keyUp", cmThreads[t].key, t))
        /\ cmPressed' = cmPressed \ {cmThreads[t].key}
        /\ cmThreads' = [cmThreads EXCEPT ![t].pc = "finished"]
    /\ UNCHANGED <<cmArgs, cmNow, cmMain, cmResult>>
    /\ UNCHANGED exceptCamera

\* Line 671: thread_h.join().
JoinH ==
    /\ cmMain.pc = "join_h"
    /\ cmThreads.h.pc = "finished"
    /\ cmMain' = [cmMain EXCEPT !.pc = "join_v"]
    /\ UNCHANGED <<cmArgs, cmNow, cmThreads, cmEvents, cmPressed, cmResult>>
    /\ UNCHANGED exceptCamera

\* Line 672: thread_v.join(); move_camera returns.
JoinV ==
    /\ cmMain.pc = "join_v"
    /\ cmThreads.v.pc = "finished"
    /\ cmMain' = [cmMain EXCEPT !.pc = "done"]
    /\ cmResult' = "returned"
    /\ UNCHANGED <<cmArgs, cmNow, cmThreads, cmEvents, cmPressed>>
    /\ UNCHANGED exceptCamera

\* The instants at which a time.sleep in progress ends.
Wakes ==
    {cmThreads[t].wake : t \in {u \in {"h", "v"} : cmThreads[u].pc = "holding"}}
    \cup (IF cmMain.pc \in {"delay", "held_h", "held_v"} THEN {cmMain.wake} ELSE {})

\* Time passes, up to the end of a sleep in progress.  time.sleep suspends its
\* thread for at least the time given: a thread may go on later than that.
TimePasses ==
    /\ \E w \in Wakes : w > cmNow /\ cmNow' = w
    /\ UNCHANGED <<cmArgs, cmMain, cmThreads, cmEvents, cmPressed, cmResult>>
    /\ UNCHANGED exceptCamera

CameraNext ==
    \/ MoveCameraCall
    \/ InlineKeyDown
    \/ InlineKeyUp
    \/ StartFirst
    \/ StartSecond
    \/ ThreadKeyDown
    \/ ThreadKeyUp
    \/ JoinH
    \/ JoinV
    \/ TimePasses

-----------------------------------------------------------------------------
(* Mouse.move_to with style="wind": utilities/mouse.py                     *)

\* The floats of the loop are kept in hundredths of a pixel.
Hundredths == 100

\* move_to, lines 28, 30 and 31: the defaults of G_0, M_0 and D_0, in pixels.
G_0 == 60

M_0 == 30

D_0 == 30

\* Line 115: M_0 / SQRT5, to the nearest hundredth.
DivSqrt5(m) == (m * 100000 + 111803) \div 223607

\* Line 113: np.random.random() * 3 + 3 lies in [3, 6); the samples explored.
ResetSamples == {300, 450, 599}

\* Lines 112-115: the values M_0 may take next when dist < D_0.
NextM0(m) == IF m < 3 * Hundredths THEN ResetSamples ELSE {DivSqrt5(m)}

\* Line 120: M_0 / 2 + np.random.random() * M_0 / 2 lies in [M_0 / 2, M_0); the
\* samples explored are the least one and the whole and half pixels in range.
VClips(m) == {c \in ((m + 1) \div 2)..(m - 1) : c = (m + 1) \div 2 \/ c % 50 = 0}

\* Lines 125-126: int(np.round(x)), rounding halves to the even integer.
np_round(x) ==
    LET q == x \div Hundredths
        r == x % Hundredths
    IN  IF r < 50 THEN q
        ELSE IF r > 50 THEN q + 1
        ELSE IF q % 2 = 0 THEN q ELSE q + 1

\* Environment: the pointer and the destination lie on one horizontal line, less than
\* D_0 apart.  There W_x, W_y and v_y stay 0.0, y0 stays the integer it was, and
\* dist is abs(xf - x0).
MaxPixel == 8

MovePixels == 0..MaxPixel

MoveIdle ==
    /\ mvArgs = [start |-> 0, dest |-> 0]
    /\ mvPc = "idle"
    /\ mvX0 = 0
    /\ mvV = 0
    /\ mvM0 = M_0 * Hundredths
    /\ mvPointer = 0
    /\ mvMoved = FALSE

MoveInit ==
    /\ mvArgs \in [start : MovePixels, dest : MovePixels]
    /\ mvPc = "call"
    /\ mvX0 = 0
    /\ mvV = 0
    /\ mvM0 = M_0 * Hundredths
    /\ mvPointer = mvArgs.start
    /\ mvMoved = FALSE

\* Lines 74-75 and 103: x0 is read from pag.position(); the velocity and wind are 0.
MoveToCall ==
    /\ mvPc = "call"
    /\ mvX0' = mvPointer * Hundredths
    /\ mvV' = 0
    /\ mvPc' = "while"
    /\ UNCHANGED <<mvArgs, mvM0, mvPointer, mvMoved>>
    /\ UNCHANGED exceptMove

\* Line 104: dist.
WindDist == Abs(mvArgs.dest * Hundredths - mvX0)

\* Lines 104-129, one turn of the loop with dist < D_0.
WindStep ==
    /\ mvPc = "while"
    /\ WindDist >= 1 * Hundredths
    /\ WindDist < D_0 * Hundredths
    /\ \E m \in NextM0(mvM0) : \E v_clip \in VClips(m) :
         LET v     == mvV + G_0 * Hundredths * Sign(mvArgs.dest * Hundredths - mvX0)
             v_x   == IF Abs(v) > m THEN Sign(v) * v_clip ELSE v
             x     == mvX0 + v_x
             move_x == np_round(x)
         IN  /\ mvM0' = m
             /\ mvV' = v_x
             /\ IF x # move_x * Hundredths
                   THEN /\ mvPointer' = move_x
                        /\ mvMoved' = TRUE
                        /\ mvX0' = move_x * Hundredths
                   ELSE /\ mvX0' = x
                        /\ UNCHANGED <<mvPointer, mvMoved>>
    /\ UNCHANGED <<mvArgs, mvPc>>
    /\ UNCHANGED exceptMove

\* Line 104: the loop ends when dist < 1, and move_to returns.
WindReturn ==
    /\ mvPc = "while"
    /\ WindDist < 1 * Hundredths
    /\ mvPc' = "done"
    /\ UNCHANGED <<mvArgs, mvX0, mvV, mvM0, mvPointer, mvMoved>>
    /\ UNCHANGED exceptMove

MoveNext ==
    \/ MoveToCall
    \/ WindStep
    \/ WindReturn

-----------------------------------------------------------------------------
(* Rectangle.random_point: utilities/geometry.py, utilities/random_util.py *)

\* random_point_in, line 40: rng.uniform(0.10, 0.15), in thousandths; the samples
\* explored.
PaddingFactors == {100, 125, 150}

\* A variant of random_point_in that keeps the full width and height.
random_point_in_unshrunk(xmin, ymin, width, height, padding_factor) ==
    [xmin   |-> RoundDiv(1000 * xmin + width * padding_factor, 1000),
     ymin   |-> RoundDiv(1000 * ymin + height * padding_factor, 1000),
     width  |-> width,
     height |-> height]

\* random_point_in, lines 41-44: the inner bounding box.
random_point_in(xmin, ymin, width, height, padding_factor) ==
    [xmin   |-> RoundDiv(1000 * xmin + width * padding_factor, 1000),
     ymin   |-> RoundDiv(1000 * ymin + height * padding_factor, 1000),
     width  |-> RoundDiv(width * (1000 - 2 * padding_factor), 1000),
     height |-> RoundDiv(height * (1000 - 2 * padding_factor), 1000)]

\* __random_from, lines 70-71: the center, xmin + round((xmax - xmin) / 2).
box_center(lo, hi) == lo + RoundDiv(hi - lo, 2)

\* trunc_norm_samp, line 108: the values rng.gauss(mean, std) may give, in half
\* pixels.  With std = 0 it gives the mean; otherwise any value, of which those from
\* one pixel below lo to one pixel above hi are explored.
GaussSamples(lo, hi, mean, std6) ==
    IF std6 = 0 THEN {2 * mean} ELSE (2 * lo - 2)..(2 * hi + 2)

\* trunc_norm_samp, lines 109-110, and __random_from, lines 78-79: a sample outside
\* [lo, hi] is drawn again; one inside is rounded.
Accepted(sample, lo, hi) == 2 * lo <= sample /\ sample <= 2 * hi

\* Bound on the sides of the rectangles explored.
MaxSide == 20

RandSides == {0, 1, 4, 5, MaxSide}

RandRects == {Rectangle(l, 0, w, h) : l \in {0, 3}, w \in RandSides, h \in RandSides}

RandIdle ==
    /\ rpRect = Rectangle(0, 0, 0, 0)
    /\ rpPc = "idle"
    /\ rpInner = Rectangle(0, 0, 0, 0)
    /\ rpPoint = Point(0, 0)

RandInit ==
    /\ rpRect \in RandRects
    /\ rpPc = "call"
    /\ rpInner = Rectangle(0, 0, 0, 0)
    /\ rpPoint = Point(0, 0)

\* Rectangle.random_point, line 129, and random_point_in, lines 40-45.
RandomPointIn ==
    /\ rpPc = "call"
    /\ \E padding_factor \in PaddingFactors :
         LET b == random_point_in(rpRect.left, rpRect.top, rpRect.width, rpRect.height,
                                  padding_factor)
         IN  rpInner' = Rectangle(b.xmin, b.ymin, b.width, b.height)
    /\ rpPc' = "x"
    /\ UNCHANGED <<rpRect, rpPoint>>
    /\ UNCHANGED exceptRand

\* __random_from, line 78: x = round(trunc_norm_samp(xmin, xmax, x_center, xstd)).
SampleX ==
    /\ rpPc = "x"
    /\ LET lo == rpInner.left
           hi == rpInner.left + rpInner.width
       IN  \E sample \in GaussSamples(lo, hi, box_center(lo, hi), rpInner.width) :
             IF Accepted(sample, lo, hi)
                THEN /\ rpPoint' = [rpPoint EXCEPT !.x = RoundDiv(sample, 2)]
                     /\ rpPc' = "y"
                ELSE UNCHANGED <<rpPoint, rpPc>>
    /\ UNCHANGED <<rpRect, rpInner>>
    /\ UNCHANGED exceptRand

\* __random_from, lines 79-80, and Rectangle.random_point, line 130.
SampleY ==
    /\ rpPc = "y"
    /\ LET lo == rpInner.top
           hi == rpInner.top + rpInner.height
       IN  \E sample \in GaussSamples(lo, hi, box_center(lo, hi), rpInner.height) :
             IF Accepted(sample, lo, hi)
                THEN /\ rpPoint' = [rpPoint EXCEPT !.y = RoundDiv(sample, 2)]
                     /\ rpPc' = "done"
                ELSE UNCHANGED <<rpPoint, rpPc>>
    /\ UNCHANGED <<rpRect, rpInner>>
    /\ UNCHANGED exceptRand

RandNext ==
    \/ RandomPointIn
    \/ SampleX
    \/ SampleY

-----------------------------------------------------------------------------
(* RuneLiteBot.find_and_mouse_to_marked_object: model/runelite_bot.py      *)

\* Bound on the num_retries argument explored.
MaxNumRetries == 10

\* Lines 984, 987 and 989: int(0.3 * n), int(0.5 * n) and int(0.8 * n).
NudgeFrom(n) == (3 * n) \div 10

RotateAfter(n) == n \div 2

WalkFrom(n) == (8 * n) \div 10

Remediations == <<"nudge", "rotate", "walk", "zoom">>

MarkIdle ==
    /\ mkArgs = [num_retries |-> 0]
    /\ mkPc = "idle"
    /\ mkI = 0
    /\ mkSearches = 0
    /\ mkApplied = << >>
    /\ mkLog = << >>
    /\ mkResult = "none"

MarkInit ==
    /\ mkArgs \in [num_retries : 0..MaxNumRetries]
    /\ mkPc = "call"
    /\ mkI = 0
    /\ mkSearches = 0
    /\ mkApplied = << >>
    /\ mkLog = << >>
    /\ mkResult = "none"

\* The remediation is applied in this turn of the loop.
Apply(what) ==
    IF \E k \in 1..Len(mkApplied) : mkApplied[k] = what
       THEN UNCHANGED <<mkApplied, mkLog>>
       ELSE /\ mkApplied' = Append(mkApplied, what)
            /\ mkLog' = Append(mkLog, mkI)

\* Lines 974-979: the first try; found_obj is what the screen gives.
MarkedCall ==
    /\ mkPc = "call"
    /\ \E found_obj \in BOOLEAN :
         IF found_obj THEN mkPc' = "done" /\ mkResult' = "True"
                      ELSE mkPc' = "for" /\ mkResult' = mkResult
    /\ UNCHANGED <<mkArgs, mkI, mkSearches, mkApplied, mkLog>>
    /\ UNCHANGED exceptMark

\* Lines 981-983: a turn of the loop begins with the search over all orders.
MarkedSearch ==
    /\ mkPc = "for"
    /\ mkI < mkArgs.num_retries
    /\ mkSearches' = mkSearches + 1
    /\ \E found \in BOOLEAN :
         IF found THEN mkPc' = "done" /\ mkResult' = "True"
                  ELSE mkPc' = "nudge" /\ mkResult' = mkResult
    /\ UNCHANGED <<mkArgs, mkI, mkApplied, mkLog>>
    /\ UNCHANGED exceptMark

\* Lines 984-986: tilt the camera down.
MarkedNudge ==
    /\ mkPc = "nudge"
    /\ IF mkI >= NudgeFrom(mkArgs.num_retries)
          THEN Apply("nudge") ELSE UNCHANGED <<mkApplied, mkLog>>
    /\ mkPc' = "rotate"
    /\ UNCHANGED <<mkArgs, mkI, mkSearches, mkResult>>
    /\ UNCHANGED exceptMark

\* Lines 987-988: rotate the camera.
MarkedRotate ==
    /\ mkPc = "rotate"
    /\ IF mkI > RotateAfter(mkArgs.num_retries)
          THEN Apply("rotate") ELSE UNCHANGED <<mkApplied, mkLog>>
    /\ mkPc' = "walk"
    /\ UNCHANGED <<mkArgs, mkI, mkSearches, mkResult>>
    /\ UNCHANGED exceptMark

\* Lines 989-990: walk to a point nearby.
MarkedWalk ==
    /\ mkPc = "walk"
    /\ IF mkI >= WalkFrom(mkArgs.num_retries)
          THEN Apply("walk") ELSE UNCHANGED <<mkApplied, mkLog>>
    /\ mkPc' = "zoom"
    /\ UNCHANGED <<mkArgs, mkI, mkSearches, mkResult>>
    /\ UNCHANGED exceptMark

\* Lines 991-1001: `if i % (num_retries // 2) == 0`, which divides by zero when
\* num_retries is 1; then the next turn.
MarkedZoom ==
    /\ mkPc = "zoom"
    /\ IF mkArgs.num_retries \div 2 = 0
          THEN /\ mkResult' = "ZeroDivisionError"
               /\ mkPc' = "done"
               /\ UNCHANGED <<mkI, mkApplied, mkLog>>
          ELSE /\ IF mkI % (mkArgs.num_retries \div 2) = 0
                     THEN Apply("zoom") ELSE UNCHANGED <<mkApplied, mkLog>>
               /\ mkI' = mkI + 1
               /\ mkPc' = "for"
               /\ mkResult' = mkResult
    /\ UNCHANGED <<mkArgs, mkSearches>>
    /\ UNCHANGED exceptMark

\* Lines 981 and 1002-1006: the loop is over; return False.
MarkedGiveUp ==
    /\ mkPc = "for"
    /\ mkI >= mkArgs.num_retries
    /\ mkPc' = "done"
    /\ mkResult' = "False"
    /\ UNCHANGED <<mkArgs, mkI, mkSearches, mkApplied, mkLog>>
    /\ UNCHANGED exceptMark

MarkNext ==
    \/ MarkedCall
    \/ MarkedSearch
    \/ MarkedNudge
    \/ MarkedRotate
    \/ MarkedWalk
    \/ MarkedZoom
    \/ MarkedGiveUp

-----------------------------------------------------------------------------
(* Walker.get_target_posn and Walker.has_arrived: utilities/walker.py      *)

\* Environment: the tiles explored, in two rows.
MaxQueryTile == 3

QueryTiles == {Point(x, y) : x \in 0..MaxQueryTile, y \in {0, 3}}

QueryPaths == UNION {[1..n -> QueryTiles] : n \in 0..3}

QueryPads == {None, Some(0), Some(1), Some(2)}

\* The calls explored.  loc is the position update_position stores.
QueryCalls ==
    [call : {"get_target_posn"}, loc : QueryTiles, walk_path : QueryPaths,
     MAX_HORIZON : {1, 2}, dest : {Point(0, 0)}, pad : {None},
     DEST_SQUARE_SIDE_LENGTH : {1}]
    \cup
    [call : {"has_arrived"}, loc : QueryTiles, walk_path : {<< >>},
     MAX_HORIZON : {1}, dest : QueryTiles, pad : QueryPads,
     DEST_SQUARE_SIDE_LENGTH : {1, 3, 4}]

NoAnswer == [kind |-> "none", point |-> None, bool |-> FALSE]

QueryIdle ==
    /\ qArgs = [call |-> "none", loc |-> Point(0, 0), walk_path |-> << >>,
                MAX_HORIZON |-> 1, dest |-> Point(0, 0), pad |-> None,
                DEST_SQUARE_SIDE_LENGTH |-> 1]
    /\ qPc = "idle"
    /\ qResult = NoAnswer

QueryInit ==
    /\ qArgs \in QueryCalls
    /\ qPc = "call"
    /\ qResult = NoAnswer

\* get_target_posn, lines 138-155.
GetTargetPosn ==
    /\ qPc = "call"
    /\ qArgs.call = "get_target_posn"
    /\ qResult' = [kind |-> "point",
                   point |-> get_target_posn(qArgs.loc, qArgs.walk_path, qArgs.MAX_HORIZON),
                   bool |-> FALSE]
    /\ qPc' = "done"
    /\ UNCHANGED qArgs
    /\ UNCHANGED exceptQuery

\* has_arrived, lines 177-185.
HasArrived ==
    /\ qPc = "call"
    /\ qArgs.call = "has_arrived"
    /\ qResult' = [kind |-> "bool", point |-> None,
                   bool |-> has_arrived_pad(qArgs.loc, qArgs.dest, qArgs.pad,
                                            qArgs.DEST_SQUARE_SIDE_LENGTH)]
    /\ qPc' = "done"
    /\ UNCHANGED qArgs
    /\ UNCHANGED exceptQuery

QueryNext ==
    \/ GetTargetPosn
    \/ HasArrived

-----------------------------------------------------------------------------
(* Bot and BotThread: model/bot.py; the hotkey: views/info_frame.py        *)

\* Bound on the workers started.
MaxWorkers == 2

Workers == 1..MaxWorkers

CallerThreads == {"gui", "hotkey"}

\* A variant of OnSystemExit in which the dying worker lets the button go.
OnSystemExitReleasing(down) == FALSE

\* Mouse.click, lines 204-213, and BotThread.run, lines 43-47: nothing between
\* pag.mouseDown and pag.mouseUp catches the SystemExit, and the `finally` of run only
\* prints, so the button stays as it was.
OnSystemExit(down) == down

Alive(w) == btWorker[w].state \in {"run", "held"}

NoCall == [op |-> "none", pc |-> "idle", hit |-> 0, error |-> ""]

BotIdle ==
    /\ btPlatform = "Linux"
    /\ btCallers = {}
    /\ btStatus = "STOPPED"
    /\ btThread = 0
    /\ btWorker = [w \in Workers |-> [state |-> "new", exc |-> FALSE]]
    /\ btStarted = 0
    /\ btCall = [t \in CallerThreads |-> NoCall]
    /\ btDown = FALSE

BotInit ==
    /\ btPlatform \in {"Windows", "Linux", "Darwin"}
    /\ btCallers \in {{"gui"}, {"gui", "hotkey"}}
    /\ btStatus \in {"STOPPED", "CONFIGURED"}
    /\ btThread = 0
    /\ btWorker = [w \in Workers |-> [state |-> "new", exc |-> FALSE]]
    /\ btStarted = 0
    /\ btCall = [t \in CallerThreads |-> NoCall]
    /\ btDown = FALSE

Free(t) == t \in btCallers /\ btCall[t].pc \in {"idle", "done"}

\* The Play button, or InfoFrame.__on_key_press, lines 301-302: the hotkey calls play
\* when the view shows "stopped".
BeginPlay ==
    /\ \E t \in CallerThreads :
        /\ Free(t)
        /\ t = "hotkey" => btStatus = "STOPPED"
        /\ btCall' = [btCall EXCEPT ![t] = [op |-> "play", pc |-> "play", hit |-> 0, error |-> ""]]
    /\ UNCHANGED <<btPlatform, btCallers, btStatus, btThread, btWorker, btStarted, btDown>>
    /\ UNCHANGED exceptBot

\* The Stop button, or InfoFrame.__on_key_press, lines 299-300: the hotkey calls stop
\* when the view shows "running".
BeginStop ==
    /\ \E t \in CallerThreads :
        /\ Free(t)
        /\ t = "hotkey" => btStatus = "RUNNING"
        /\ btCall' = [btCall EXCEPT ![t] = [op |-> "stop", pc |-> "stop", hit |-> 0, error |-> ""]]
    /\ UNCHANGED <<btPlatform, btCallers, btStatus, btThread, btWorker, btStarted, btDown>>
    /\ UNCHANGED exceptBot

\* Bot.play, lines 176 and 194-197: the test of the status.
PlayCheck ==
    /\ \E t \in CallerThreads :
        /\ btCall[t].pc = "play"
        /\ btCall' = [btCall EXCEPT ![t].pc =
                        IF btStatus \in {"STOPPED", "CONFIGURED"} THEN "init" ELSE "done"]
    /\ UNCHANGED <<btPlatform, btCallers, btStatus, btThread, btWorker, btStarted, btDown>>
    /\ UNCHANGED exceptBot

\* Bot.play, lines 177-190: the window is initialized, which takes over half a second;
\* when that fails, play calls stop and returns.
PlayInit ==
    /\ \E t \in CallerThreads :
        /\ btCall[t].pc = "init"
        /\ \E initialized \in BOOLEAN :
             btCall' = [btCall EXCEPT ![t].pc = IF initialized THEN "set_status" ELSE "stop"]
    /\ UNCHANGED <<btPlatform, btCallers, btStatus, btThread, btWorker, btStarted, btDown>>
    /\ UNCHANGED exceptBot

\* Bot.play, line 191.
PlaySetStatus ==
    /\ \E t \in CallerThreads :
        /\ btCall[t].pc = "set_status"
        /\ btCall' = [btCall EXCEPT ![t].pc = "start"]
    /\ btStatus' = "RUNNING"
    /\ UNCHANGED <<btPlatform, btCallers, btThread, btWorker, btStarted, btDown>>
    /\ UNCHANGED exceptBot

\* Bot.play, lines 192-193: a new BotThread is stored and started.
PlayStart ==
    /\ btStarted < MaxWorkers
    /\ \E t \in CallerThreads :
        /\ btCall[t].pc = "start"
        /\ btCall' = [btCall EXCEPT ![t].pc = "done"]
    /\ btStarted' = btStarted + 1
    /\ btThread' = btStarted + 1
    /\ btWorker' = [btWorker EXCEPT ![btStarted + 1].state = "run"]
    /\ UNCHANGED <<btPlatform, btCallers, btStatus, btDown>>
    /\ UNCHANGED exceptBot

\* Bot.stop, lines 220-221 and 224-225.
StopCheck ==
    /\ \E t \in CallerThreads :
        /\ btCall[t].pc = "stop"
        /\ IF btStatus # "STOPPED" /\ btThread # 0
              THEN /\ btStatus' = "STOPPED"
                   /\ btCall' = [btCall EXCEPT ![t].pc = "raise"]
              ELSE /\ btStatus' = btStatus
                   /\ btCall' = [btCall EXCEPT ![t].pc = "done"]
    /\ UNCHANGED <<btPlatform, btCallers, btThread, btWorker, btStarted, btDown>>
    /\ UNCHANGED exceptBot

\* Bot.stop, line 222, and BotThread.stop, lines 71-85.  __get_id gives None for a
\* thread that has ended, and ctypes.c_long(None) raises TypeError; on Windows the None
\* names no thread.  On another platform BotThread.stop does nothing.
StopRaise ==
    /\ \E t \in CallerThreads :
        /\ btCall[t].pc = "raise"
        /\ LET w == btThread
           IN  IF btPlatform \notin {"Windows", "Linux"}
                  THEN /\ btCall' = [btCall EXCEPT ![t].pc = "join"]
                       /\ UNCHANGED btWorker
               ELSE IF ~Alive(w)
                  THEN /\ btCall' = [btCall EXCEPT ![t] =
                                       IF btPlatform = "Linux"
                                          THEN [@ EXCEPT !.pc = "done", !.error = "TypeError"]
                                          ELSE [@ EXCEPT !.pc = "join"]]
                       /\ UNCHANGED btWorker
               ELSE /\ btWorker' = [btWorker EXCEPT ![w].exc = TRUE]
                    /\ btCall' = [btCall EXCEPT ![t] =
                                    [@ EXCEPT !.pc = "join",
                                              !.hit = IF btWorker[w].state = "held" THEN w ELSE 0]]
    /\ UNCHANGED <<btPlatform, btCallers, btStatus, btThread, btStarted, btDown>>
    /\ UNCHANGED exceptBot

\* Bot.stop, line 223: join returns once the thread has ended.
StopJoin ==
    /\ \E t \in CallerThreads :
        /\ btCall[t].pc = "join"
        /\ ~Alive(btThread)
        /\ btCall' = [btCall EXCEPT ![t].pc = "done"]
    /\ UNCHANGED <<btPlatform, btCallers, btStatus, btThread, btWorker, btStarted, btDown>>
    /\ UNCHANGED exceptBot

\* The worker in Mouse.click, line 204: pag.mouseDown.
WorkerPress ==
    /\ \E w \in Workers :
        /\ btWorker[w].state = "run"
        /\ ~btWorker[w].exc
        /\ btWorker' = [btWorker EXCEPT ![w].state = "held"]
    /\ btDown' = TRUE
    /\ UNCHANGED <<btPlatform, btCallers, btStatus, btThread, btStarted, btCall>>
    /\ UNCHANGED exceptBot

\* The worker in Mouse.click, line 213: pag.mouseUp.
WorkerRelease ==
    /\ \E w \in Workers :
        /\ btWorker[w].state = "held"
        /\ ~btWorker[w].exc
        /\ btWorker' = [btWorker EXCEPT ![w].state = "run"]
    /\ btDown' = FALSE
    /\ UNCHANGED <<btPlatform, btCallers, btStatus, btThread, btStarted, btCall>>
    /\ UNCHANGED exceptBot

\* The SystemExit set by PyThreadState_SetAsyncExc is raised in the worker before its
\* next call: the worker unwinds through BotThread.run and ends.
WorkerExit ==
    /\ \E w \in Workers :
        /\ Alive(w)
        /\ btWorker[w].exc
        /\ btWorker' = [btWorker EXCEPT ![w].state = "dead"]
    /\ btDown' = OnSystemExit(btDown)
    /\ UNCHANGED <<btPlatform, btCallers, btStatus, btThread, btStarted, btCall>>
    /\ UNCHANGED exceptBot

BotNext ==
    \/ BeginPlay
    \/ BeginStop
    \/ PlayCheck
    \/ PlayInit
    \/ PlaySetStatus
    \/ PlayStart
    \/ StopCheck
    \/ StopRaise
    \/ StopJoin
    \/ WorkerPress
    \/ WorkerRelease
    \/ WorkerExit

-----------------------------------------------------------------------------
(* Walker.update_position: utilities/walker.py                             *)

\* RuneLiteBot.get_world_point, lines 2106-2114: the tuple read from the screen, or
\* (-1, -1, -1) when scrape_text gives no text.
get_world_point(world, text_read) == IF text_read THEN world ELSE <<-1, -1, -1>>

\* The truth value of a Python tuple: false only when it is empty.
TupleTruthy(t) == Len(t) > 0

\* Environment: the world points explored.
WorldTuples == {<<x, y, plane>> : x \in 0..MaxTile, y \in 0..MaxTile, plane \in {0, 1}}

PosnIdle ==
    /\ upWorld = <<0, 0, 0>>
    /\ upPc = "idle"
    /\ upCalls = 0
    /\ upPolls = 0
    /\ upPosition = << >>

PosnInit ==
    /\ upWorld \in WorldTuples
    /\ upPc = "call"
    /\ upCalls = 1
    /\ upPolls = 0
    /\ upPosition = << >>

\* update_position, lines 67-73: one turn of `while True`; the loop is left, and the
\* position stored, when the tuple get_world_point returned is truthy.
UpdatePosition ==
    /\ upPc = "call"
    /\ \E text_read \in BOOLEAN :
         LET posn == get_world_point(upWorld, text_read)
         IN  IF TupleTruthy(posn)
                THEN upPosition' = posn /\ upPc' = "done"
                ELSE UNCHANGED <<upPosition, upPc>>
    /\ upPolls' = upPolls + 1
    /\ UNCHANGED <<upWorld, upCalls>>
    /\ UNCHANGED exceptPosn

\* The character has moved, and update_position is called again.
UpdatePositionAgain ==
    /\ upPc = "done"
    /\ upCalls < MaxCalls
    /\ upWorld' \in WorldTuples
    /\ upPc' = "call"
    /\ upCalls' = upCalls + 1
    /\ upPolls' = 0
    /\ UNCHANGED upPosition
    /\ UNCHANGED exceptPosn

PosnNext ==
    \/ UpdatePosition
    \/ UpdatePositionAgain

-----------------------------------------------------------------------------
(* Specifications                                                          *)

\* The window object after construction and the template search before a call.
Others == WinInit /\ SearchInit

Init ==
    /\ Others
    /\ ColorIdle
    /\ ContourIdle
    /\ ShotIdle
    /\ OcrIdle
    /\ ObjIdle
    /\ PixelIdle
    /\ WalkIdle
    /\ WaypointIdle
    /\ TravelIdle
    /\ ClickIdle
    /\ CameraIdle
    /\ MoveIdle
    /\ RandIdle
    /\ MarkIdle
    /\ QueryIdle
    /\ BotIdle
    /\ PosnIdle

SpecWin == Init /\ [][WinNext]_vars

SpecSearch == Init /\ [][SearchNext]_vars

InitColor ==
    /\ Others
    /\ ColorInit
    /\ ContourIdle
    /\ ShotIdle
    /\ OcrIdle
    /\ ObjIdle
    /\ PixelIdle
    /\ WalkIdle
    /\ WaypointIdle
    /\ TravelIdle
    /\ ClickIdle
    /\ CameraIdle
    /\ MoveIdle
    /\ RandIdle
    /\ MarkIdle
    /\ QueryIdle
    /\ BotIdle
    /\ PosnIdle

SpecColor == InitColor /\ [][ColorNext]_vars

InitContour ==
    /\ Others
    /\ ColorIdle
    /\ ContourInit
    /\ ShotIdle
    /\ OcrIdle
    /\ ObjIdle
    /\ PixelIdle
    /\ WalkIdle
    /\ WaypointIdle
    /\ TravelIdle
    /\ ClickIdle
    /\ CameraIdle
    /\ MoveIdle
    /\ RandIdle
    /\ MarkIdle
    /\ QueryIdle
    /\ BotIdle
    /\ PosnIdle

SpecContour == InitContour /\ [][ContourNext]_vars

InitShot ==
    /\ Others
    /\ ColorIdle
    /\ ContourIdle
    /\ ShotInit
    /\ OcrIdle
    /\ ObjIdle
    /\ PixelIdle
    /\ WalkIdle
    /\ WaypointIdle
    /\ TravelIdle
    /\ ClickIdle
    /\ CameraIdle
    /\ MoveIdle
    /\ RandIdle
    /\ MarkIdle
    /\ QueryIdle
    /\ BotIdle
    /\ PosnIdle

SpecShot == InitShot /\ [][ShotNext]_vars

InitScrape ==
    /\ Others
    /\ ColorIdle
    /\ ContourIdle
    /\ ShotIdle
    /\ ScrapeInit
    /\ ObjIdle
    /\ PixelIdle
    /\ WalkIdle
    /\ WaypointIdle
    /\ TravelIdle
    /\ ClickIdle
    /\ CameraIdle
    /\ MoveIdle
    /\ RandIdle
    /\ MarkIdle
    /\ QueryIdle
    /\ BotIdle
    /\ PosnIdle

SpecScrape == InitScrape /\ [][ScrapeNext]_vars

InitTextbox ==
    /\ Others
    /\ ColorIdle
    /\ ContourIdle
    /\ ShotIdle
    /\ TextboxInit
    /\ ObjIdle
    /\ PixelIdle
    /\ WalkIdle
    /\ WaypointIdle
    /\ TravelIdle
    /\ ClickIdle
    /\ CameraIdle
    /\ MoveIdle
    /\ RandIdle
    /\ MarkIdle
    /\ QueryIdle
    /\ BotIdle
    /\ PosnIdle

SpecTextbox == InitTextbox /\ [][TextboxNext]_vars

InitObj ==
    /\ Others
    /\ ColorIdle
    /\ ContourIdle
    /\ ShotIdle
    /\ OcrIdle
    /\ ObjInit
    /\ PixelIdle
    /\ WalkIdle
    /\ WaypointIdle
    /\ TravelIdle
    /\ ClickIdle
    /\ CameraIdle
    /\ MoveIdle
    /\ RandIdle
    /\ MarkIdle
    /\ QueryIdle
    /\ BotIdle
    /\ PosnIdle

SpecObj == InitObj /\ [][ObjNext]_vars

InitPixel ==
    /\ Others
    /\ ColorIdle
    /\ ContourIdle
    /\ ShotIdle
    /\ OcrIdle
    /\ ObjIdle
    /\ PixelInit
    /\ WalkIdle
    /\ WaypointIdle
    /\ TravelIdle
    /\ ClickIdle
    /\ CameraIdle
    /\ MoveIdle
    /\ RandIdle
    /\ MarkIdle
    /\ QueryIdle
    /\ BotIdle
    /\ PosnIdle

SpecPixel == InitPixel /\ [][PixelNext]_vars

InitWalk ==
    /\ Others
    /\ ColorIdle
    /\ ContourIdle
    /\ ShotIdle
    /\ OcrIdle
    /\ ObjIdle
    /\ PixelIdle
    /\ WalkInit
    /\ WaypointIdle
    /\ TravelIdle
    /\ ClickIdle
    /\ CameraIdle
    /\ MoveIdle
    /\ RandIdle
    /\ MarkIdle
    /\ QueryIdle
    /\ BotIdle
    /\ PosnIdle

SpecWalk == InitWalk /\ [][WalkNext]_vars

InitWaypoint ==
    /\ Others
    /\ ColorIdle
    /\ ContourIdle
    /\ ShotIdle
    /\ OcrIdle
    /\ ObjIdle
    /\ PixelIdle
    /\ WalkIdle
    /\ WaypointInit
    /\ TravelIdle
    /\ ClickIdle
    /\ CameraIdle
    /\ MoveIdle
    /\ RandIdle
    /\ MarkIdle
    /\ QueryIdle
    /\ BotIdle
    /\ PosnIdle

SpecWaypoint == InitWaypoint /\ [][WaypointNext]_vars

InitTravel ==
    /\ Others
    /\ ColorIdle
    /\ ContourIdle
    /\ ShotIdle
    /\ OcrIdle
    /\ ObjIdle
    /\ PixelIdle
    /\ WalkIdle
    /\ WaypointIdle
    /\ TravelInit
    /\ ClickIdle
    /\ CameraIdle
    /\ MoveIdle
    /\ RandIdle
    /\ MarkIdle
    /\ QueryIdle
    /\ BotIdle
    /\ PosnIdle

SpecTravel == InitTravel /\ [][TravelNext]_vars

InitClick ==
    /\ Others
    /\ ColorIdle
    /\ ContourIdle
    /\ ShotIdle
    /\ OcrIdle
    /\ ObjIdle
    /\ PixelIdle
    /\ WalkIdle
    /\ WaypointIdle
    /\ TravelIdle
    /\ ClickInit
    /\ CameraIdle
    /\ MoveIdle
    /\ RandIdle
    /\ MarkIdle
    /\ QueryIdle
    /\ BotIdle
    /\ PosnIdle

SpecClick == InitClick /\ [][ClickNext]_vars

InitCamera ==
    /\ Others
    /\ ColorIdle
    /\ ContourIdle
    /\ ShotIdle
    /\ OcrIdle
    /\ ObjIdle
    /\ PixelIdle
    /\ WalkIdle
    /\ WaypointIdle
    /\ TravelIdle
    /\ ClickIdle
    /\ CameraInit
    /\ MoveIdle
    /\ RandIdle
    /\ MarkIdle
    /\ QueryIdle
    /\ BotIdle
    /\ PosnIdle

SpecCamera == InitCamera /\ [][CameraNext]_vars

InitMove ==
    /\ Others
    /\ ColorIdle
    /\ ContourIdle
    /\ ShotIdle
    /\ OcrIdle
    /\ ObjIdle
    /\ PixelIdle
    /\ WalkIdle
    /\ WaypointIdle
    /\ TravelIdle
    /\ ClickIdle
    /\ CameraIdle
    /\ MoveInit
    /\ RandIdle
    /\ MarkIdle
    /\ QueryIdle
    /\ BotIdle
    /\ PosnIdle

SpecMove == InitMove /\ [][MoveNext]_vars

InitRand ==
    /\ Others
    /\ ColorIdle
    /\ ContourIdle
    /\ ShotIdle
    /\ OcrIdle
    /\ ObjIdle
    /\ PixelIdle
    /\ WalkIdle
    /\ WaypointIdle
    /\ TravelIdle
    /\ ClickIdle
    /\ CameraIdle
    /\ MoveIdle
    /\ RandInit
    /\ MarkIdle
    /\ QueryIdle
    /\ BotIdle
    /\ PosnIdle

SpecRand == InitRand /\ [][RandNext]_vars

InitMark ==
    /\ Others
    /\ ColorIdle
    /\ ContourIdle
    /\ ShotIdle
    /\ OcrIdle
    /\ ObjIdle
    /\ PixelIdle
    /\ WalkIdle
    /\ WaypointIdle
    /\ TravelIdle
    /\ ClickIdle
    /\ CameraIdle
    /\ MoveIdle
    /\ RandIdle
    /\ MarkInit
    /\ QueryIdle
    /\ BotIdle
    /\ PosnIdle

SpecMark == InitMark /\ [][MarkNext]_vars

InitQuery ==
    /\ Others
    /\ ColorIdle
    /\ ContourIdle
    /\ ShotIdle
    /\ OcrIdle
    /\ ObjIdle
    /\ PixelIdle
    /\ WalkIdle
    /\ WaypointIdle
    /\ TravelIdle
    /\ ClickIdle
    /\ CameraIdle
    /\ MoveIdle
    /\ RandIdle
    /\ MarkIdle
    /\ QueryInit
    /\ BotIdle
    /\ PosnIdle

SpecQuery == InitQuery /\ [][QueryNext]_vars

InitBot ==
    /\ Others
    /\ ColorIdle
    /\ ContourIdle
    /\ ShotIdle
    /\ OcrIdle
    /\ ObjIdle
    /\ PixelIdle
    /\ WalkIdle
    /\ WaypointIdle
    /\ TravelIdle
    /\ ClickIdle
    /\ CameraIdle
    /\ MoveIdle
    /\ RandIdle
    /\ MarkIdle
    /\ QueryIdle
    /\ BotInit
    /\ PosnIdle

SpecBot == InitBot /\ [][BotNext]_vars

InitPosn ==
    /\ Others
    /\ ColorIdle
    /\ ContourIdle
    /\ ShotIdle
    /\ OcrIdle
    /\ ObjIdle
    /\ PixelIdle
    /\ WalkIdle
    /\ WaypointIdle
    /\ TravelIdle
    /\ ClickIdle
    /\ CameraIdle
    /\ MoveIdle
    /\ RandIdle
    /\ MarkIdle
    /\ QueryIdle
    /\ BotIdle
    /\ PosnInit

SpecPosn == InitPosn /\ [][PosnNext]_vars

-----------------------------------------------------------------------------
(* Claims about window calibration                                         *)

\* C1: initialize returns True only if the minimap, chat, control-panel and game-view
\* stages all succeeded in that same call, and whenever the minimap, chat or
\* control-panel anchor was not found the call reports failure (False or raised).
C1_FailsClosedResult ==
    /\ initResult = "True" =>
          /\ stage = [a |-> "True", b |-> "True", c |-> "True", d |-> "True"]
          /\ anchors.minimap /\ anchors.chat /\ anchors.control_panel
    /\ (calls > 0 /\ ~(anchors.minimap /\ anchors.chat /\ anchors.control_panel)) =>
          initResult \in {"False", "raised"}

\* A failed call in which the control-panel anchor was missed although the game-view
\* stage itself succeeded on regions left by an earlier call.
C1_Witness ==
    /\ initResult = "False"
    /\ ~anchors.control_panel
    /\ stage.d = "True"

\* A successful recalibration.
C1_WitnessTrue == initResult = "True" /\ calls > 1

\* C2: a call of initialize that reports failure leaves the region set unchanged.
C2_FailureLeavesRegions ==
    [][(calls' = calls + 1 /\ initResult' # "True") => (win' = win /\ mode' = mode)]_vars

\* C3: all readable regions derive from the anchors of one single initialize call, and
\* the game-view stage used minimap, chat and control-panel regions of its own call.
C3_SingleRun ==
    /\ \A g, h \in Groups : (stamp[g] # 0 /\ stamp[h] # 0) => stamp[g] = stamp[h]
    /\ stamp["game_view"] # 0 =>
          \A g \in Groups \ {"game_view"} : gvFrom[g] = stamp["game_view"]

-----------------------------------------------------------------------------
(* Claims about template search                                            *)

\* C4: search_img_in_rect makes a first attempt at the given confidence and, after
\* each rejection, raises the threshold by 0.01 and tries again, for up to num_retries
\* retries; an attempt accepts exactly when the best score is strictly below its
\* threshold; thresholds never decrease; a best score of 0 is accepted on the first
\* attempt for any positive confidence.
C4_RetriesAfterFirstAttempt ==
    sResult.kind = "returned" =>
        /\ Len(tried) >= 1 /\ tried[1] = sArgs.confidence
        /\ \A k \in 1..Len(tried) - 1 : tried[k + 1] = tried[k] + ConfidenceStep
        /\ (sResult.value = None) => Len(tried) = sArgs.num_retries + 1
        /\ (sResult.value # None) <=> sArgs.min_val < tried[Len(tried)]
        /\ (sArgs.min_val = 0 /\ sArgs.confidence > 0) =>
              (sResult.value # None /\ Len(tried) = 1)

-----------------------------------------------------------------------------
(* Claims about color isolation                                            *)

\* The color with its bounds corrected component-wise (lower = min, upper = max).
Corrected(color) == Color(Minimum(color.lo, color.hi), Maximum(color.lo, color.hi))

\* C5: isolate_colors and isolate_contours each give, for a range with lower and upper
\* swapped on any channel, the same mask as for the min/max-corrected range; an
\* inverted range never silently yields an empty mask.
C5_SwappedBoundsSameMask ==
    /\ cMask # << >> =>
          cMask = isolate_colors(cImage, [k \in 1..Len(cColors) |-> Corrected(cColors[k])])
    /\ cThresh # << >> =>
          cThresh = inRange(cImage, Corrected(cColors[1]).lo, Corrected(cColors[1]).hi)

-----------------------------------------------------------------------------
(* Claims about contour extraction                                         *)

\* The 50 x 50 grid cells of a bounding box, edge cells clipped to the box.
GridCells(br) ==
    {[x |-> br.x + j, y |-> br.y + i,
      width |-> IF 50 < br.width - j THEN 50 ELSE br.width - j,
      height |-> IF 50 < br.height - i THEN 50 ELSE br.height - i] :
        i \in {i \in 0..br.height - 1 : i % 50 = 0},
        j \in {j \in 0..br.width - 1 : j % 50 = 0}}

\* A cell contains at least one foreground pixel of the image.
CellHasForeground(mask, cell) ==
    \E b \in mask :
        /\ b.left < cell.x + cell.width /\ cell.x < b.left + b.width
        /\ b.top < cell.y + cell.height /\ cell.y < b.top + b.height

\* The box an emitted object covers.
BoxOf(o) == [x |-> o.xmin, y |-> o.ymin, width |-> o.width, height |-> o.height]

\* C6: per external contour, exactly one object covering the bounding box when its
\* area is at most 125 * 125; otherwise one object per 50 x 50 grid cell of the
\* bounding box (edge cells clipped to the box) that contains a foreground pixel.
C6_ObjectsPerContour ==
    ePc = "done" =>
        \A c \in findContours(eMask) :
            LET br == boundingRect(c)
                mine == SelectSeq(eObjs, LAMBDA o : o.domain = c)
                boxes == {BoxOf(mine[k]) : k \in 1..Len(mine)}
                expected == IF br.width * br.height <= 125 * 125
                               THEN {br}
                               ELSE {cell \in GridCells(br) : CellHasForeground(eMask, cell)}
            IN  boxes = expected /\ Len(mine) = Cardinality(expected)

\* C30: every chunk object emitted for an oversized contour contains at least one
\* pixel of that contour's own filled interior; a chunk is never emitted only because
\* of foreground pixels of a different contour.
C30_ChunkHoldsOwnPixel ==
    ePc = "done" =>
        \A k \in 1..Len(eObjs) :
            LET br == boundingRect(eObjs[k].domain)
            IN  br.width * br.height > WholeObjectArea
                    => CellHasForeground(eObjs[k].domain, BoxOf(eObjs[k]))

-----------------------------------------------------------------------------
(* Claims about capture                                                    *)

\* The pixel lies in some configured sub-rectangle of subtract_list.
InSomeArea(rc) ==
    \E k \in 1..Len(subtract_list) :
        LET area == subtract_list[k]
        IN  /\ area.top <= rc[1] /\ rc[1] < area.top + area.height
            /\ area.left <= rc[2] /\ rc[2] < area.left + area.width

\* C7: the returned buffer is the grabbed pixels (alpha dropped) with every pixel of
\* every sub-rectangle of subtract_list set to zero and every other pixel as grabbed;
\* when the sub-rectangles cover the whole area the buffer is all zero.
C7_SubtractAfterGrab ==
    (shPc = "done" /\ grabbed # << >>) =>
        /\ \A rc \in ShotRows \X ShotCols :
              img_bgr[rc] = IF InSomeArea(rc) THEN <<0, 0, 0>> ELSE SubSeq(grabbed[rc], 1, 3)
        /\ (\A rc \in ShotRows \X ShotCols : InSomeArea(rc)) =>
              \A rc \in ShotRows \X ShotCols : img_bgr[rc] = <<0, 0, 0>>

\* A capture whose two sub-rectangles cover the whole area without either doing so
\* alone, of a screen that is not black.
C7_Witness ==
    /\ shPc = "done" /\ grabbed # << >>
    /\ Len(subtract_list) = 2
    /\ \A rc \in ShotRows \X ShotCols : InSomeArea(rc) /\ grabbed[rc][1] # 0
    /\ \A k \in 1..2 : subtract_list[k].width < ShotShape.width
    /\ \A rc \in ShotRows \X ShotCols : img_bgr[rc] = <<0, 0, 0>>

-----------------------------------------------------------------------------
(* Claims about OCR                                                        *)

\* The glyph hits scrape_text pools: every candidate character of the font at every
\* position where its correlation is >= 0.98.
Candidate(c) ==
    IF oArgs.include_only_chars.given
        THEN c \in oArgs.include_only_chars.chars
        ELSE c # " " /\ c \notin oArgs.exclude_chars

PooledHits ==
    {hit \in [char : FontChars, x : {p.x : p \in Positions}, y : {p.y : p \in Positions}] :
        /\ Candidate(hit.char)
        /\ Point(hit.x, hit.y) \in Positions
        /\ correlation[hit.char][Point(hit.x, hit.y)] >= 98}

\* C10: scrape_text returns the characters of all pooled glyph hits, each once,
\* ordered by row ascending and within a row by column ascending, with no separators.
C10_ScrapeOrder ==
    (oPc = "done" /\ oArgs.call = "scrape_text" /\ oResult.kind = "returned") =>
        /\ {char_list[k] : k \in 1..Len(char_list)} = PooledHits
        /\ Len(char_list) = Cardinality(PooledHits)
        /\ \A k, l \in 1..Len(char_list) :
              k < l => \/ char_list[k].y < char_list[l].y
                       \/ (char_list[k].y = char_list[l].y /\ char_list[k].x <= char_list[l].x)
        /\ Len(oResult.value) = Len(char_list)
        /\ \A k \in 1..Len(char_list) : oResult.value[k] = char_list[k].char

\* A scrape with hits on both rows where a later font character comes first in the
\* text: the hit on the second row is at a smaller column than one on the first row.
C10_Witness ==
    /\ oPc = "done" /\ oArgs.call = "scrape_text"
    /\ oResult = Outcome("returned", <<"b", "a", "b">>)
    /\ char_list[2].x > char_list[3].x

\* The words find_textbox is asked for, without the characters the font lacks and
\* without spaces.
Searchable ==
    LET words == IF oArgs.text.kind = "str" THEN << oArgs.text.str >> ELSE oArgs.text.list
    IN  [k \in 1..Len(words) |-> SelectSeq(words[k], LAMBDA c : c \in FontChars /\ c # " ")]

\* C8: find_textbox never raises: characters missing from the font are dropped from
\* the text, be it one string or a list of strings, the search goes on with what
\* remains, and when nothing remains to search for it returns an empty list.
C8_NeverRaises ==
    (oPc = "done" /\ oArgs.call = "find_textbox") =>
        /\ oResult.kind = "returned"
        /\ \A k \in 1..Len(matches) :
              \E j \in 1..Len(Searchable) : matches[k].word = Searchable[j]
        /\ (\A j \in 1..Len(Searchable) : Searchable[j] = << >>) => oResult.value = << >>

\* C9: every Rectangle find_textbox returns has its top-left at the hit of the first
\* matched character moved by the origin of the search region, ends at the right edge
\* of the last matched character, has that glyph's height, and has width >= 0 and
\* height >= 0, wherever the glyph hits lie.
C9_TextboxGeometry ==
    (oPc = "done" /\ oArgs.call = "find_textbox" /\ oResult.kind = "returned") =>
        \A k \in 1..Len(oResult.value) :
            LET r == oResult.value[k]
                first == char_list[matches[k].i + 1]
                last == char_list[matches[k].i + Len(matches[k].word)]
            IN  /\ r.left = first.x + oArgs.rect.left
                /\ r.top = first.y + oArgs.rect.top
                /\ r.left + r.width = last.x + Font[last.char].w + oArgs.rect.left
                /\ r.height = Font[last.char].h
                /\ r.width >= 0
                /\ r.height >= 0

-----------------------------------------------------------------------------
(* Claims about RuneLiteObject                                             *)

\* C11: every object find_colors returns has its containing Rectangle set, and on an
\* object whose containing Rectangle was never set, center and random_point raise
\* ReferenceError and never return a point.
C11_MissingReferenceRaises ==
    /\ objVia = "find_colors" => \A k \in 1..Len(objs) : objs[k].rect # None
    /\ (objPc = "done" /\ objSelf.rect = None) => objResult = Raise("ReferenceError")

-----------------------------------------------------------------------------
(* Claims about the Walker                                                 *)

\* The north-aligned pixel delta from the Walker's tile to the destination.
NorthDelta == Point(4 * (pxDest.x - pxSelf.x[1]), 4 * (pxSelf.y[1] - pxDest.y))

\* C12: get_pixel_distance returns the north-aligned delta (4*(dest.x - x),
\* 4*(y - dest.y)) at camera heading 0, and at heading 90 returns a north-aligned
\* delta (dx, dy) as (dy, -dx).
C12_RotatedDelta ==
    pxPc = "done" =>
        /\ pxSelf.camera_angle = Some(0) => pxResult = Some(NorthDelta)
        /\ pxSelf.camera_angle = Some(90) =>
                pxResult = Some(Point(NorthDelta.y, -NorthDelta.x))

\* C13: once get_target_posn finds no waypoint within the horizon of the current
\* position, walk reports the blocked path, neither searches again nor runs another
\* loop iteration nor clicks toward a waypoint, and returns False.
C13_BlockedPathReturnsFalse ==
    wkHist.blocked =>
        /\ wkHist.after = {}
        /\ wkPc = "done" => wkResult = "False"

\* The destination zone: the square of side DEST_SQUARE_SIDE_LENGTH around dest.
InZone(p, dest) ==
    /\ Abs(p.x - dest.x) <= wkCfg.DEST_SQUARE_SIDE_LENGTH \div 2
    /\ Abs(p.y - dest.y) <= wkCfg.DEST_SQUARE_SIDE_LENGTH \div 2

\* C14: walk returns True only if the position was inside the destination zone at its
\* last arrival check, and when the position is inside the zone at the first check of
\* the call it returns True without any pointer move or click.
C14_TrueOnlyOnArrival ==
    /\ wkResult = "True" =>
            wkHist.last # None /\ InZone(wkHist.last[1], wkLocal.dest)
    /\ (wkHist.first # None /\ InZone(wkHist.first[1], wkLocal.dest)) =>
            wkPc = "done" /\ wkResult = "True" /\ ~wkHist.pointer

\* walk on a single-point path at the character's tile has returned True at once.
C14_Witness ==
    /\ wkPc = "done" /\ wkResult = "True"
    /\ wkArgs.walk_path = << wkWorld.tile >> /\ wkArgs.dest = None
    /\ wkHist.first = Some(wkWorld.tile) /\ wkHist.last = wkHist.first
    /\ ~wkHist.pointer

\* C15: in the path add_waypoints returns, no two consecutive waypoints are more than
\* MAX_WAYPOINT_DIST tiles apart.
C15_WaypointsWithinMaxDist ==
    wpPc = "done" =>
        \A k \in 1..(Len(wpOut) - 1) :
            Distance2(wpOut[k], wpOut[k + 1]) <= wpArgs.MAX_WAYPOINT_DIST * wpArgs.MAX_WAYPOINT_DIST

\* The positions in the returned path of the original waypoints.
OriginalAt(i) == {k \in 1..Len(wpFrom) : wpFrom[k].orig = i}

Between(v, a, b) == (a <= v /\ v <= b) \/ (b <= v /\ v <= a)

\* C16: the path add_waypoints returns starts with the first and ends with the last
\* original waypoint, holds every original waypoint once, in the original order, and
\* every inserted waypoint stands between the two consecutive originals it
\* interpolates.
C16_OriginalsInOrder ==
    wpPc = "done" =>
        LET n == Len(wpArgs.walk_path) IN
        /\ wpOut[1] = wpArgs.walk_path[1] /\ wpFrom[1].orig = 1
        /\ wpOut[Len(wpOut)] = wpArgs.walk_path[n] /\ wpFrom[Len(wpOut)].orig = n
        /\ \A i \in 1..n :
              /\ Cardinality(OriginalAt(i)) = 1
              /\ \A k \in OriginalAt(i) : wpOut[k] = wpArgs.walk_path[i]
        /\ \A k, l \in 1..Len(wpOut) :
              (k < l /\ wpFrom[k].orig # 0 /\ wpFrom[l].orig # 0) =>
                    wpFrom[k].orig < wpFrom[l].orig
        /\ \A k \in 1..Len(wpOut) :
              wpFrom[k].orig = 0 =>
                 /\ \A l \in OriginalAt(wpFrom[k].step) : l < k
                 /\ \A l \in OriginalAt(wpFrom[k].step + 1) : k < l
                 /\ Between(wpOut[k].x, wpArgs.walk_path[wpFrom[k].step].x,
                            wpArgs.walk_path[wpFrom[k].step + 1].x)
                 /\ Between(wpOut[k].y, wpArgs.walk_path[wpFrom[k].step].y,
                            wpArgs.walk_path[wpFrom[k].step + 1].y)

\* A three-point path whose first step got an intermediate waypoint and whose
\* second step did not.
C16_Witness ==
    /\ wpPc = "done"
    /\ Len(wpArgs.walk_path) = 3
    /\ Len(wpOut) = 4
    /\ wpFrom[2] = [orig |-> 0, step |-> 1]
    /\ wpFrom[3].orig = 2 /\ wpFrom[4].orig = 3

\* C17: travel_to_dest_along_path tries DAX, then OSRSPathfinder, then the hard-coded
\* path; a later tier is attempted only after the previous one raised (an empty path
\* makes the tier raise); it returns True if an attempted tier reached the
\* destination and otherwise returns False.
C17_TiersInOrder ==
    /\ \A k \in 1..Len(tvTried) : tvTried[k].tier = <<"dax", "osrspf", "manual">>[k]
    /\ \A k \in 2..Len(tvTried) : tvTried[k - 1].end = "raised"
    /\ tvPc = "done" =>
          IF \E k \in 1..Len(tvTried) : tvTried[k].end = "True"
             THEN tvResult = "True"
             ELSE tvResult = "False"

-----------------------------------------------------------------------------
(* Claims about the Mouse                                                  *)

\* The calls made between the optional key down and the optional key up.
ClickCore ==
    IF clArgs.hold_key = None THEN clEvents
    ELSE SubSeq(clEvents, 2, Len(clEvents) - 1)

\* C18: click, with either button, makes its calls in the order: optional modifier
\* key down, button down, a hold of 30 to 200 ms, button up, optional modifier key
\* up; when it returns, every button or key it pressed is released.
C18_ClickOrder ==
    clPc = "done" =>
        /\ clArgs.hold_key # None =>
              /\ Len(clEvents) >= 2
              /\ clEvents[1] = Event("keyDown", clArgs.hold_key[1], 0)
              /\ clEvents[Len(clEvents)] = Event("keyUp", clArgs.hold_key[1], 0)
        /\ Len(ClickCore) = 3
        /\ ClickCore[1] = Event("mouseDown", clArgs.button, 0)
        /\ ClickCore[2].call = "sleep" /\ ClickCore[2].ms >= 30 /\ ClickCore[2].ms <= 200
        /\ ClickCore[3] = Event("mouseUp", clArgs.button, 0)
        /\ clPressed = {}

-----------------------------------------------------------------------------
(* Claims about the camera                                                 *)

\* C19: for a combined rotation the two key holds overlap in time, that is the second
\* key goes down before the first key is released, each task releases the key it
\* pressed, and move_camera returns only after both tasks have finished.
C19_HoldsOverlap ==
    (cmArgs.horizontal # 0 /\ cmArgs.vertical # 0) =>
        /\ \A k \in 1..Len(cmEvents) :
              cmEvents[k].what = "keyUp" =>
                 /\ \E l \in 1..(k - 1) :
                        cmEvents[l] = KeyEvent("keyDown", cmEvents[k].key, cmEvents[k].by)
                 /\ Cardinality({l \in 1..(k - 1) : cmEvents[l].what = "keyDown"}) = 2
        /\ cmResult = "returned" =>
              /\ cmThreads.h.pc = "finished" /\ cmThreads.v.pc = "finished"
              /\ Len(cmEvents) = 4
              /\ cmPressed = {}

-----------------------------------------------------------------------------
(* Claims about the wind-style pointer movement                            *)

\* C20: when move_to in wind style has returned, the pointer's last reported position
\* is the destination, and no move was issued when the pointer already was at the
\* destination.
C20_PointerAtDestination ==
    mvPc = "done" =>
        /\ mvPointer = mvArgs.dest
        /\ mvArgs.start = mvArgs.dest => ~mvMoved

-----------------------------------------------------------------------------
(* Claims about Rectangle.random_point                                     *)

\* v lies between lo + side / 10 and lo + side - side / 10, to within one pixel.
WithinMargin(v, lo, side) ==
    /\ lo <= v /\ v <= lo + side
    /\ 10 * (v - lo) >= side - 10
    /\ 10 * (lo + side - v) >= side - 10

\* C21: Rectangle.random_point terminates: while it has not returned, a step that
\* brings it further is possible, and every sampling loop can end at once.  The point
\* it returns is inside the rectangle and, up to rounding, at least 10 percent of each
\* side away from the rectangle's edges.
C21_PointWithinMargin ==
    /\ rpPc \in {"call", "x", "y"} => ENABLED (RandNext /\ rpPc' # rpPc)
    /\ rpPc = "done" =>
          /\ WithinMargin(rpPoint.x, rpRect.left, rpRect.width)
          /\ WithinMargin(rpPoint.y, rpRect.top, rpRect.height)

\* A point drawn on the far edge of the inner box of a rectangle 20 wide and 4 high.
C21_Witness ==
    /\ rpPc = "done"
    /\ rpRect.width >= 20 /\ rpRect.height = 4
    /\ rpPoint.x = rpInner.left + rpInner.width
    /\ rpPoint.y = rpInner.top + rpInner.height

-----------------------------------------------------------------------------
(* Claims about find_and_mouse_to_marked_object                            *)

\* C22: when the marked object is never found, find_and_mouse_to_marked_object makes
\* at most num_retries retry rounds and then returns False; it does not raise, for
\* any num_retries >= 0.
C22_BoundedRetriesNoRaise ==
    /\ mkSearches <= mkArgs.num_retries
    /\ mkPc = "done" => mkResult \in {"True", "False"}

\* C24: the remediations are first applied in the order camera nudge, rotation, short
\* walk, zoom reset: none is applied before every earlier one has been applied on that
\* or an earlier retry.
C24_TiersInOrder ==
    \A k \in 1..Len(mkApplied) : mkApplied[k] = Remediations[k]

-----------------------------------------------------------------------------
(* Claims about Walker.get_target_posn and Walker.has_arrived              *)

\* Waypoint i of the path is within MAX_HORIZON tiles of the position on both axes.
Reachable(i) ==
    /\ Abs(qArgs.walk_path[i].x - qArgs.loc.x) <= qArgs.MAX_HORIZON
    /\ Abs(qArgs.walk_path[i].y - qArgs.loc.y) <= qArgs.MAX_HORIZON

\* C23: get_target_posn returns the waypoint of greatest index whose x and y each
\* differ from the current position by at most MAX_HORIZON tiles, whatever waypoints
\* precede or follow it.
C23_FurthestWithinHorizon ==
    (qPc = "done" /\ qArgs.call = "get_target_posn") =>
        \A i \in 1..Len(qArgs.walk_path) :
            (Reachable(i) /\ \A j \in (i + 1)..Len(qArgs.walk_path) : ~Reachable(j))
                => qResult.point = Some(qArgs.walk_path[i])

\* The waypoint returned is the second of three: the first is within the horizon too,
\* the third is not.
C23_Witness ==
    /\ qPc = "done" /\ qArgs.call = "get_target_posn"
    /\ Len(qArgs.walk_path) = 3
    /\ Reachable(1) /\ Reachable(2) /\ ~Reachable(3)
    /\ qArgs.walk_path[1] # qArgs.walk_path[2]
    /\ qResult.point = Some(qArgs.walk_path[2])

\* The pad the claim gives has_arrived: DEST_SQUARE_SIDE_LENGTH // 2 when pad is
\* omitted, else the pad passed.
ClaimedPad == IF qArgs.pad = None THEN qArgs.DEST_SQUARE_SIDE_LENGTH \div 2 ELSE qArgs.pad[1]

\* C25: has_arrived(dest, pad) is true exactly when the current position is within pad
\* tiles of dest on both axes; with pad omitted, pad is DEST_SQUARE_SIDE_LENGTH // 2,
\* and an explicit pad = 0 tests the exact destination tile.
C25_WithinPad ==
    (qPc = "done" /\ qArgs.call = "has_arrived") =>
        (qResult.bool <=> /\ Abs(qArgs.loc.x - qArgs.dest.x) <= ClaimedPad
                          /\ Abs(qArgs.loc.y - qArgs.dest.y) <= ClaimedPad)

-----------------------------------------------------------------------------
(* Claims about Bot.play and Bot.stop                                      *)

\* The calling thread t has returned from a stop that raised SystemExit in a worker
\* which was between the press and the release.
StoppedWhileHeld(t) ==
    /\ btCall[t].op \in {"stop", "play"}
    /\ btCall[t].pc = "done"
    /\ btCall[t].hit # 0

C29_OneWorker ==
    /\ Cardinality({w \in Workers : Alive(w)}) <= 1
    /\ btStatus = "RUNNING" =>
          \/ \E w \in Workers : Alive(w)
          \/ \E t \in btCallers : btCall[t].pc = "start"

-----------------------------------------------------------------------------
(* Claims about Walker.update_position                                     *)

\* C27: after update_position returns, the stored position is the world point read
\* from the screen, never the (-1, -1, -1) that get_world_point returns when the
\* coordinate cannot be read.
C27_PositionWasRead ==
    upPc = "done" => upPosition = upWorld /\ upPosition # <<-1, -1, -1>>

-----------------------------------------------------------------------------
(* Claims relating find_textbox to scrape_text                             *)

\* The string scrape_text returns for the same correlation maps when it excludes no
\* character, for the font iterated in the given order.
ScrapedString(order) == JoinLetters(sorted(ScrapeHits(correlation, order, {}, NoInclude)))

\* word occurs in str as a run of adjacent characters.
IsSubstring(word, str) ==
    \E i \in 0..(Len(str) - Len(word)) : SubSeq(str, i + 1, i + Len(word)) = word

\* C28: find_textbox reports a match for a phrase only where the phrase's characters
\* (spaces removed) are adjacent in the text of the region: every phrase matched is a
\* substring of the string scrape_text returns when no characters are excluded.
C28_MatchIsSubstringOfScrape ==
    (oPc = "done" /\ oArgs.call = "find_textbox") =>
        \A k \in 1..Len(matches) :
            \E order \in Orders(FontChars) : IsSubstring(matches[k].word, ScrapedString(order))
=============================================================================
